---- MODULE Spec2Model ----
(***************************************************************************)
(* State-machine model of the clea command-line binding framework:         *)
(* parameter definitions (params.py), the token parsers (parser.py), the   *)
(* Command/Group wrappers (wrappers.py) and the runner (runner.py).        *)
(*                                                                         *)
(* The modelled program is one command tree                                *)
(*                                                                         *)
(*     cli (Group, version "1.0")     env: String (positional)             *)
(*      |                             debug: Boolean, -d / --debug         *)
(*      +-- a (Command)               src: String, num: Integer (pos.)     *)
(*      |                             name: String, -n / --name            *)
(*      +-- b (Command)               tag: StringList, -t / --tag          *)
(*                                    color: ChoiceByFlag {RED, BLUE,      *)
(*                                                         DARK_RED}       *)
(*                                                                         *)
(* two further groups,                                                     *)
(*                                                                         *)
(*     g (Group)                      verbose: Boolean, -v / --verbose     *)
(*      |                             pager: Boolean, --no-pager,          *)
(*      |                                    default True                  *)
(*      +-- c (Command)                                                    *)
(*      +-- h (Group)                 context: Context                     *)
(*           +-- k (Command)          context: Context                     *)
(*           +-- m (Command)          context: Context                     *)
(*     d (Group, allow_direct_exec)   mode: String, --mode, default "fast" *)
(*      +-- e (Command)               count: Integer (positional)          *)
(*      +-- p (Command)               context: Context                     *)
(*                                                                         *)
(* a command that takes files,                                             *)
(*                                                                         *)
(*     f (Command)                    inp: File (positional, exists)       *)
(*                                    cfg: File, -c / --config (exists,    *)
(*                                         resolve)                        *)
(*                                    out: File, --out                     *)
(*                                                                         *)
(* a group registered beneath its own child by an explicit add_child,      *)
(*                                                                         *)
(*     r (Group, allow_direct_exec)                                        *)
(*      +-- s (Group)                 s.add_child(r)                       *)
(*                                                                         *)
(* and a caller that builds an argument vector token by token and then     *)
(* invokes a node of the tree with it, directly or through the runner.     *)
(* The callables of h, k, m and p take the runtime context and store       *)
(* values in it.                                                           *)
(***************************************************************************)
EXTENDS Integers, Sequences, FiniteSets, TLC

\* Longest argument vector the caller builds.
MaxArgv == 3
\* Number of invocations the caller makes on the same tree (SpecRepeat).
MaxInvokes == 2
\* Longest argument vector the caller builds between repeated invocations.
MaxRepeatArgv == 2

\* Python's None, for optional strings and optional values.
None == "None"

(***************************************************************************)
(* Argument-vector tokens.  A token is the text                            *)
(*     flag ++ ("=" ++ value) repeated eqs times                           *)
(* where flag is empty for a bare token.  The parsers only ask a token     *)
(* whether it equals "--help"/"--version"/a child name, whether it starts  *)
(* with "-", whether it contains "=", and for the parts around "=".        *)
(***************************************************************************)
Tok(f, n, v) == [flag |-> f, eqs |-> n, value |-> v]

HelpTok == Tok("--help", 0, "")
VersionTok == Tok("--version", 0, "")
Bare(v) == Tok("", 0, v)
Flag(f) == Tok(f, 0, "")
FlagEq(f, v) == Tok(f, 1, v)
FlagEq2(f, v) == Tok(f, 2, v)

\* str.startswith("-")
StartsWithDash(arg) == arg.flag # ""

\* "=" in arg
HasEq(arg) == arg.eqs > 0

\* The text of a token that holds no "=": what `flag, value = arg, arg` binds.
Text(arg) == IF arg.flag = "" THEN arg.value ELSE arg.flag

\* Tokens the caller draws from when it invokes a node once (Spec).
Tokens ==
    { HelpTok, VersionTok,
      Bare("x"), Bare("1"), Bare("a"), Bare("b"),
      FlagEq("--name", "x"), Flag("--name"), FlagEq("-n", "x"),
      FlagEq("--tag", "x"), Flag("--debug"), Flag("--red"),
      FlagEq2("--name", "x") }

\* Tokens the caller draws from when it invokes a node repeatedly (SpecRepeat).
RepeatTokens ==
    { FlagEq("--tag", "x"), FlagEq("--tag", "y"), Flag("--red"), Flag("--blue") }

(***************************************************************************)
(* Parameter definitions (params.py).  Def[d] holds the attributes a       *)
(* definition has once the tree is built: the constructor's arguments,     *)
(* the name assigned by _wrap, and the class attributes.                   *)
(***************************************************************************)
Param(nm, kind, short, long, dflt) ==
    [name |-> nm, kind |-> kind, short_flag |-> short, long_flag |-> long,
     default |-> dflt, is_container |-> (kind = "StringList")]

\* The enumeration of color: every member by the characters of its name.
enum ==
    { <<"R", "E", "D">>, <<"B", "L", "U", "E">>,
      <<"D", "A", "R", "K", "_", "R", "E", "D">> }

\* str.lower() on the letters member names are made of.
LowerOf ==
    [ch \in {"A", "B", "D", "E", "K", "L", "R", "U"} |->
        CASE ch = "A" -> "a" [] ch = "B" -> "b" [] ch = "D" -> "d"
          [] ch = "E" -> "e" [] ch = "K" -> "k" [] ch = "L" -> "l"
          [] ch = "R" -> "r" [] ch = "U" -> "u"]

lower(cs) ==
    [k \in DOMAIN cs |-> IF cs[k] \in DOMAIN LowerOf THEN LowerOf[cs[k]] ELSE cs[k]]

\* str.replace(old, new) for one-character old.
replace(cs, old, new) == [k \in DOMAIN cs |-> IF cs[k] = old THEN new ELSE cs[k]]

RECURSIVE Join(_)
\* The string the characters spell.
Join(cs) == IF cs = <<>> THEN "" ELSE Head(cs) \o Join(Tail(cs))

\* Mutant of choice_flag: underscores are kept.
choice_flag_KeepsUnderscore(member) == "--" \o Join(lower(member))

\* long_flag = "--" + choice.name.lower().replace("_", "-")
choice_flag(member) == "--" \o Join(replace(lower(member), "_", "-"))

\* ChoiceByFlag.__init__: one long flag per member of the enumeration,
\* "--" + member name lower-cased with "_" replaced by "-".
flag_to_value ==
    [f \in { choice_flag(member) : member \in enum } |->
        Join(CHOOSE member \in enum : choice_flag(member) = f)]

\* VersionParameter as _wrap registers it when a version string is given.
VersionParam(version) == Param("version", "Version", None, "--version", <<version>>)

\* ContextParameter as _wrap registers it for a parameter named context:
\* no flags, and the Context handed to _wrap as default (the Context itself
\* is context_default of the node).
ContextParam == Param("context", "Context", None, None, <<"Context">>)

\* Boolean.__init__ defaults to False; StringList.__init__ stores `default or []`.
Def ==
    [ env     |-> Param("env", "String", None, None, <<>>),
      debug   |-> Param("debug", "Boolean", "-d", "--debug", <<FALSE>>),
      cli_ver |-> VersionParam("1.0"),
      src     |-> Param("src", "String", None, None, <<>>),
      num     |-> Param("num", "Integer", None, None, <<>>),
      name    |-> Param("name", "String", "-n", "--name", <<>>),
      tag     |-> Param("tag", "StringList", "-t", "--tag", << <<>> >>),
      color   |-> Param("color", "ChoiceByFlag", None, None, <<>>),
      verbose |-> Param("verbose", "Boolean", "-v", "--verbose", <<FALSE>>),
      mode    |-> Param("mode", "String", None, "--mode", <<"fast">>),
      pager   |-> Param("pager", "Boolean", None, "--no-pager", <<TRUE>>),
      inp     |-> Param("inp", "File", None, None, <<>>),
      cfg     |-> Param("cfg", "File", "-c", "--config", <<>>),
      out     |-> Param("out", "File", None, "--out", <<>>),
      count   |-> Param("count", "Integer", None, None, <<>>),
      h_context |-> ContextParam,
      k_context |-> ContextParam,
      m_context |-> ContextParam,
      p_context |-> ContextParam,
      nick    |-> Param("nick", "String", "-n", None, <<>>),
      dbg     |-> Param("dbg", "Boolean", None, "--debug", <<FALSE>>) ]

\* File.__init__: the exists and resolve options of the File definitions.
FileOpts ==
    [ inp |-> [exists |-> TRUE, resolve |-> FALSE],
      cfg |-> [exists |-> TRUE, resolve |-> TRUE],
      out |-> [exists |-> FALSE, resolve |-> FALSE] ]

Defs == DOMAIN Def

\* Parameter.metavar: the display form ArgumentsMissing names.
metavar(d) == <<Def[d].name, Def[d].kind>>

\* Parameter.create_long_flag: "--" + name with "_" replaced by "-".
create_long_flag(d) ==
    CASE Def[d].name = "debug" -> "--debug"
      [] Def[d].name = "name" -> "--name"
      [] Def[d].name = "tag" -> "--tag"
      [] Def[d].name = "env" -> "--env"
      [] Def[d].name = "src" -> "--src"
      [] Def[d].name = "num" -> "--num"
      [] Def[d].name = "color" -> "--color"
      [] Def[d].name = "context" -> "--context"
      [] OTHER -> "--version"

(***************************************************************************)
(* Parser construction (BaseParser.__init__, BaseParser.add).              *)
(***************************************************************************)
EmptyDict == [x \in {} |-> None]

\* dict.pop(key, None) on the flag table.
DictPop(dict, key) == [k \in DOMAIN dict \ {key} |-> dict[k]]

\* dict[key] = value
DictSet(dict, key, value) == (key :> value) @@ dict

EmptyParser == [_args |-> <<>>, _kwargs |-> EmptyDict]

add(parser, d) ==
    IF Def[d].kind = "ChoiceByFlag"
    THEN [parser EXCEPT !._kwargs =
             [f \in DOMAIN flag_to_value |-> d] @@ parser._kwargs]
    ELSE IF Def[d].default = <<>> /\ Def[d].short_flag = None
            /\ Def[d].long_flag = None
    THEN [parser EXCEPT !._args = Append(parser._args, d)]
    ELSE LET k1 == IF Def[d].default # <<>> /\ Def[d].long_flag = None
                   THEN DictSet(parser._kwargs, create_long_flag(d), d)
                   ELSE parser._kwargs
             k2 == IF Def[d].long_flag # None
                   THEN DictSet(k1, Def[d].long_flag, d)
                   ELSE k1
             k3 == IF Def[d].short_flag # None
                   THEN DictSet(k2, Def[d].short_flag, d)
                   ELSE k2
         IN [parser EXCEPT !._kwargs = k3]

RECURSIVE AddAll(_, _)
\* Command._wrap / Group._wrap: one add per declared parameter, in order.
AddAll(parser, ds) ==
    IF ds = <<>> THEN parser ELSE AddAll(add(parser, Head(ds)), Tail(ds))

(***************************************************************************)
(* The command tree (wrappers.py).                                         *)
(***************************************************************************)
Node ==
    [ cli |-> [type |-> "Group", version |-> "1.0",
               decls |-> <<"cli_ver", "env", "debug">>,
               children |-> {"a", "b"}, allow_direct_exec |-> FALSE],
      a   |-> [type |-> "Command", version |-> None,
               decls |-> <<"src", "num", "name">>,
               children |-> {}, allow_direct_exec |-> FALSE],
      b   |-> [type |-> "Command", version |-> None,
               decls |-> <<"tag", "color">>,
               children |-> {}, allow_direct_exec |-> FALSE],
      g   |-> [type |-> "Group", version |-> None,
               decls |-> <<"verbose", "pager">>,
               children |-> {"c", "h"}, allow_direct_exec |-> FALSE],
      c   |-> [type |-> "Command", version |-> None,
               decls |-> <<>>,
               children |-> {}, allow_direct_exec |-> FALSE],
      d   |-> [type |-> "Group", version |-> None,
               decls |-> <<"mode">>,
               children |-> {"e", "p"}, allow_direct_exec |-> TRUE],
      e   |-> [type |-> "Command", version |-> None,
               decls |-> <<"count">>,
               children |-> {}, allow_direct_exec |-> FALSE],
      f   |-> [type |-> "Command", version |-> None,
               decls |-> <<"inp", "cfg", "out">>,
               children |-> {}, allow_direct_exec |-> FALSE],
      h   |-> [type |-> "Group", version |-> None,
               decls |-> <<"h_context">>,
               children |-> {"k", "m"}, allow_direct_exec |-> FALSE],
      k   |-> [type |-> "Command", version |-> None,
               decls |-> <<"k_context">>,
               children |-> {}, allow_direct_exec |-> FALSE],
      m   |-> [type |-> "Command", version |-> None,
               decls |-> <<"m_context">>,
               children |-> {}, allow_direct_exec |-> FALSE],
      p   |-> [type |-> "Command", version |-> None,
               decls |-> <<"p_context">>,
               children |-> {}, allow_direct_exec |-> FALSE],
      r   |-> [type |-> "Group", version |-> None,
               decls |-> <<>>,
               children |-> {"s"}, allow_direct_exec |-> TRUE],
      s   |-> [type |-> "Group", version |-> None,
               decls |-> <<>>,
               children |-> {}, allow_direct_exec |-> FALSE] ]

\* The children registered by explicit add_child calls once the decorators
\* have run: s.add_child(r) registers group r beneath its own child s.
LateChildren == [x \in DOMAIN Node |-> IF x = "s" THEN {"r"} ELSE {}]

\* Group._children of node n when the program runs: the names it matches.
ChildrenOf(n) == Node[n].children \cup LateChildren[n]

RECURSIVE Below(_)
\* Node n and the nodes registered beneath it: the nodes whose callable an
\* invocation of n can run.
Below(n) == {n} \cup UNION { Below(ch) : ch \in Node[n].children }

\* The nodes of the tree rooted at cli.
Nodes == Below("cli")

\* The root groups of the modelled trees.
Groups == {"cli", "g", "d"}

\* The node whose callable declares definition d.
OwnerOf(d) ==
    CHOOSE x \in DOMAIN Node : \E i \in DOMAIN Node[x].decls : Node[x].decls[i] = d

\* Context number c as a value handed to a callable.
ContextObject(c) == "Context#" \o ToString(c)

\* The parser _wrap builds for a node: node._parser.
ParserOf(n) == AddAll(EmptyParser, Node[n].decls)


\* The long flag a definition holds once add has run: create_long_flag
\* stores the derived flag in _long_flag.
long_flag(d) ==
    IF Def[d].kind # "ChoiceByFlag" /\ Def[d].default # <<>>
       /\ Def[d].long_flag = None
    THEN create_long_flag(d)
    ELSE Def[d].long_flag

(***************************************************************************)
(* Exceptions (exceptions.py).  A CleaException carries a message and an   *)
(* exit code that defaults to 1; the parsers can also let a built-in       *)
(* exception escape, which is no CleaException.                            *)
(***************************************************************************)
DefaultExitCode == 1

CleaException(type, message, exit_code) ==
    [type |-> type, message |-> message, exit_code |-> exit_code, clea |-> TRUE]

ParsingError(d, value) ==
    CleaException("ParsingError", <<metavar(d), value>>, 1)

ExtraArgumentProvided(what, text) ==
    CleaException("ExtraArgumentProvided", <<what, text>>, DefaultExitCode)

\* A built-in exception (ValueError, TypeError) or the failure of a callable.
BuiltinException(type) ==
    [type |-> type, message |-> <<>>, exit_code |-> 1, clea |-> FALSE]

\* RuntimeException, which a callable raises to end the program with the
\* exit code it carries.
RuntimeException(message, exit_code) ==
    CleaException("RuntimeException", message, exit_code)

\* What the bound callable of node n raises when it fails: c's raises a
\* RuntimeException carrying exit code 3, e's one built without exit code,
\* g's one with an empty message and exit code 2, every other a plain
\* Exception.
CallableFailure(n) ==
    CASE n = "c" -> RuntimeException(<<"stopped">>, 3)
      [] n = "g" -> RuntimeException(<<>>, 2)
      [] n = "e" -> RuntimeException(<<"failed">>, DefaultExitCode)
      [] OTHER -> BuiltinException("Exception")

NoExc == [type |-> None, message |-> <<>>, exit_code |-> 0, clea |-> FALSE]

(***************************************************************************)
(* Parameter.parse and its overrides.  h is the state the definitions      *)
(* themselves hold: h.container[d] is StringList.container, h._default[d]  *)
(* is Parameter._default.  The result is the value, the exception raised   *)
(* (NoExc when none) and the definitions' state afterwards.                *)
(***************************************************************************)
\* int(value): the decimal strings convert, every other text is a ValueError.
IntOf == ("1" :> 1) @@ ("2" :> 2)

OptVal(o) == IF o = <<>> THEN None ELSE o[1]

\* StringList.parse: append to the definition's own list and return it.
StringList_parse(d, value, h) ==
    LET c == Append(h.container[d], value)
    IN [val |-> c, exc |-> NoExc, h |-> [h EXCEPT !.container[d] = c]]

\* ChoiceByFlag.parse: look the text up in flag_to_value and keep the
\* member as the definition's default.
ChoiceByFlag_parse(d, value, h) ==
    IF value \in DOMAIN flag_to_value
    THEN [val |-> flag_to_value[value], exc |-> NoExc,
          h |-> [h EXCEPT !._default[d] = <<flag_to_value[value]>>]]
    ELSE [val |-> None, exc |-> ParsingError(d, value), h |-> h]

\* The file system the program runs in: what kind of thing a path names.
PathKind(text) ==
    CASE text = "a.txt" -> "file"
      [] text = "dir" -> "dir"
      [] OTHER -> "missing"

\* pathlib.Path(value)
Path(text) == [path |-> text]

\* Path.resolve(): the absolute path, relative to the working directory.
resolve(path) == [path |-> "/cwd/" \o path.path]

\* flag = self.short_flag or self.long_flag
FileFlag(d) == IF Def[d].short_flag # None THEN Def[d].short_flag ELSE long_flag(d)

\* File.parse
File_parse(d, value, h) ==
    IF FileOpts[d].exists /\ PathKind(value) = "missing"
    THEN [val |-> None,
          exc |-> CleaException("ParsingError",
                                <<"Invalid value for", FileFlag(d), value,
                                  "does not exist">>, 1),
          h |-> h]
    ELSE IF PathKind(value) # "missing" /\ PathKind(value) # "file"
    THEN [val |-> None,
          exc |-> CleaException("ParsingError",
                                <<"Invalid value for", FileFlag(d), value,
                                  "is not a file">>, 1),
          h |-> h]
    ELSE [val |-> IF FileOpts[d].resolve THEN resolve(Path(value)) ELSE Path(value),
          exc |-> NoExc, h |-> h]

\* Mutant of parse: a Boolean reads the text it is given.
parse_BooleanReadsText(d, value, h) ==
    CASE Def[d].kind = "Boolean" ->
            [val |-> (value # "false"), exc |-> NoExc, h |-> h]
      [] Def[d].kind = "Integer" /\ value \notin DOMAIN IntOf ->
            [val |-> None, exc |-> ParsingError(d, value), h |-> h]
      [] Def[d].kind = "Integer" ->
            [val |-> IntOf[value], exc |-> NoExc, h |-> h]
      [] Def[d].kind = "StringList" -> StringList_parse(d, value, h)
      [] Def[d].kind = "ChoiceByFlag" -> ChoiceByFlag_parse(d, value, h)
      [] OTHER ->
            [val |-> value, exc |-> NoExc, h |-> h]

parse(d, value, h) ==
    CASE Def[d].kind = "String" ->
            [val |-> value, exc |-> NoExc, h |-> h]
      [] Def[d].kind = "Integer" ->
            IF value \in DOMAIN IntOf
            THEN [val |-> IntOf[value], exc |-> NoExc, h |-> h]
            ELSE [val |-> None, exc |-> ParsingError(d, value), h |-> h]
      [] Def[d].kind = "Boolean" ->
            [val |-> ~ h._default[d][1], exc |-> NoExc, h |-> h]
      [] Def[d].kind = "StringList" -> StringList_parse(d, value, h)
      [] Def[d].kind = "ChoiceByFlag" -> ChoiceByFlag_parse(d, value, h)
      [] Def[d].kind = "File" -> File_parse(d, value, h)
      [] Def[d].kind = "Version" ->
            [val |-> value, exc |-> NoExc, h |-> h]
      [] OTHER ->
            [val |-> None, exc |-> BuiltinException("TypeError"), h |-> h]


(***************************************************************************)
(* The parsers (parser.py).  A parse state ps holds the parser copy being  *)
(* consumed (_args, _kwargs), the values bound so far (args, kwargs), the  *)
(* definitions' state h, the exception raised (NoExc while none), the      *)
(* number of tokens the loop has bound (consumed) and the index of the     *)
(* token at which the loop stopped (at; 0 when it ran off the end).        *)
(***************************************************************************)
\* CommandParser.copy / GroupParser.copy: a new deque and a new dict that
\* hold the same definition objects.
copy(parser) == [_args |-> parser._args, _kwargs |-> parser._kwargs]

StartParse(parser, h) ==
    [_args |-> parser._args, _kwargs |-> parser._kwargs,
     args |-> <<>>, kwargs |-> EmptyDict, h |-> h, exc |-> NoExc,
     consumed |-> 0, at |-> 0, help_only |-> FALSE, version_only |-> FALSE,
     sub_command |-> None, sub_argv |-> <<>>]

\* Mutant of Deregister: the other flag of the definition stays registered.
Deregister_KeepsAlias(kw, d) == kw

\* After a non-container definition is used: both of its flags are popped.
Deregister(kw, d) ==
    DictPop(DictPop(kw, IF Def[d].short_flag = None THEN "" ELSE Def[d].short_flag),
            IF long_flag(d) = None THEN "" ELSE long_flag(d))

\* The rest of the flag branch once `definition.parse(value=value)` gave r:
\* store the value under the definition's name, then re-register the
\* container's flag or pop the short and long flag of any other definition.
BindFlag(ps, flag, d, popped, r) ==
    IF r.exc # NoExc
    THEN [ps EXCEPT !._kwargs = popped, !.exc = r.exc, !.h = r.h]
    ELSE [ps EXCEPT
            !.kwargs = DictSet(ps.kwargs, Def[d].name, r.val),
            !.h = r.h,
            !._kwargs = IF Def[d].is_container
                        THEN DictSet(popped, flag, d)
                        ELSE Deregister(popped, d)]

\* A token that starts with "-" (the `if arg.startswith("-")` branch).
ParseFlag(ps, arg) ==
    IF arg.eqs > 1
    THEN \* flag, value = arg.split("=") with three or more parts
         [ps EXCEPT !.exc = BuiltinException("ValueError")]
    ELSE IF arg.flag \notin DOMAIN ps._kwargs
    THEN [ps EXCEPT !.exc = ExtraArgumentProvided("flag", arg.flag)]
    ELSE BindFlag(ps, arg.flag, ps._kwargs[arg.flag],
                  DictPop(ps._kwargs, arg.flag),
                  parse(ps._kwargs[arg.flag],
                        IF HasEq(arg) THEN arg.value ELSE Text(arg), ps.h))

\* Mutant of ParseBare: a bare token with no slot left is skipped.
ParseBare_SkipsExtra(ps, arg) ==
    IF Len(ps._args) = 0
    THEN ps
    ELSE LET d == Head(ps._args)
             r == parse(d, Text(arg), ps.h)
         IN IF r.exc # NoExc
            THEN [ps EXCEPT !._args = Tail(ps._args), !.exc = r.exc, !.h = r.h]
            ELSE [ps EXCEPT !._args = Tail(ps._args),
                            !.args = Append(ps.args, r.val), !.h = r.h]

\* Mutant of ParseBare: a bare token that fails to convert is bound as None
\* and the scan goes on.
ParseBare_KeepsBadValue(ps, arg) ==
    IF Len(ps._args) = 0
    THEN [ps EXCEPT !.exc = ExtraArgumentProvided("arg", Text(arg))]
    ELSE [ps EXCEPT !._args = Tail(ps._args),
                    !.args = Append(ps.args,
                                    parse(Head(ps._args), Text(arg), ps.h).val),
                    !.h = parse(Head(ps._args), Text(arg), ps.h).h]

\* A bare token (the `else` branch).
ParseBare(ps, arg) ==
    IF Len(ps._args) = 0
    THEN [ps EXCEPT !.exc = ExtraArgumentProvided("arg", Text(arg))]
    ELSE LET d == Head(ps._args)
             r == parse(d, Text(arg), ps.h)
         IN IF r.exc # NoExc
            THEN [ps EXCEPT !._args = Tail(ps._args), !.exc = r.exc, !.h = r.h]
            ELSE [ps EXCEPT !._args = Tail(ps._args),
                            !.args = Append(ps.args, r.val), !.h = r.h]

RECURSIVE Metavars(_)
Metavars(ds) == IF ds = <<>> THEN <<>> ELSE <<metavar(Head(ds))>> \o Metavars(Tail(ds))

RECURSIVE Reverse(_)
Reverse(sq) == IF sq = <<>> THEN <<>> ELSE Reverse(Tail(sq)) \o <<Head(sq)>>

\* Mutant of raise_missing_args: the unfilled definitions named last first.
raise_missing_args_Reversed(ps) ==
    [ps EXCEPT !.exc = CleaException("ArgumentsMissing", Reverse(Metavars(ps._args)), 1)]

\* BaseParser.raise_missing_args
raise_missing_args(ps) ==
    [ps EXCEPT !.exc = CleaException("ArgumentsMissing", Metavars(ps._args), 1)]

\* The definitions still registered in the flag table, "version" skipped.
Unused(ps) == { d \in { ps._kwargs[f] : f \in DOMAIN ps._kwargs } : Def[d].name # "version" }

\* Mutant of Finish: the definitions never supplied get no entry.
Finish_NoDefaults(ps) ==
    IF Len(ps._args) > 0 THEN raise_missing_args(ps) ELSE ps

\* After the token loop: missing positionals raise, and every definition
\* still registered contributes its container or its default.
Finish(ps) ==
    IF Len(ps._args) > 0
    THEN raise_missing_args(ps)
    ELSE LET filled == { Def[d].name : d \in Unused(ps) }
             defOf(n) == CHOOSE d \in Unused(ps) : Def[d].name = n
         IN [ps EXCEPT !.kwargs =
               [n \in filled \cup DOMAIN ps.kwargs |->
                  IF n \in filled
                  THEN IF Def[defOf(n)].is_container
                       THEN ps.h.container[defOf(n)]
                       ELSE IF Def[defOf(n)].kind = "Context"
                       THEN ContextObject(ps.h.context_default[OwnerOf(defOf(n))])
                       ELSE OptVal(ps.h._default[defOf(n)])
                  ELSE ps.kwargs[n]]]

RECURSIVE CommandScan(_, _, _)
\* CommandParser.parse: the loop over argv from token i on, then Finish.
CommandScan(ps, argv, i) ==
    IF i > Len(argv) THEN Finish(ps)
    ELSE IF argv[i] = HelpTok
         THEN [ps EXCEPT !.help_only = TRUE, !.at = i]
    ELSE IF argv[i] = VersionTok
         THEN [ps EXCEPT !.version_only = TRUE, !.at = i]
    ELSE LET next == IF StartsWithDash(argv[i])
                     THEN ParseFlag(ps, argv[i])
                     ELSE ParseBare(ps, argv[i])
         IN IF next.exc # NoExc
            THEN [next EXCEPT !.at = i]
            ELSE CommandScan([next EXCEPT !.consumed = i], argv, i + 1)

CommandParser_parse(parser, argv, h) == CommandScan(StartParse(parser, h), argv, 1)

\* Mutant of sub_argv_after: the child is handed the group's whole argv.
sub_argv_after_WholeArgv(argv, i) == argv

\* Mutant of sub_argv_after: the child's name stays in its argv.
sub_argv_after_KeepsName(argv, i) == SubSeq(argv, i, Len(argv))

\* _i = i + 1; sub_argv = argv[_i:]
sub_argv_after(argv, i) == SubSeq(argv, i + 1, Len(argv))

RECURSIVE GroupScan_PositionalsFirst(_, _, _, _)
\* Mutant of GroupParser.parse: a bare token fills an open positional slot
\* before it is compared with the child names.
GroupScan_PositionalsFirst(ps, argv, commands, i) ==
    IF i > Len(argv) THEN Finish(ps)
    ELSE IF ~ HasEq(argv[i]) /\ Text(argv[i]) \in commands /\ Len(ps._args) = 0
         THEN Finish([ps EXCEPT !.sub_command = Text(argv[i]),
                                !.sub_argv = sub_argv_after(argv, i),
                                !.at = i])
    ELSE IF argv[i] = HelpTok
         THEN [ps EXCEPT !.help_only = TRUE, !.at = i, !.sub_argv = argv]
    ELSE IF argv[i] = VersionTok
         THEN [ps EXCEPT !.version_only = TRUE, !.at = i, !.sub_argv = argv]
    ELSE LET next == IF StartsWithDash(argv[i])
                     THEN ParseFlag(ps, argv[i])
                     ELSE ParseBare(ps, argv[i])
         IN IF next.exc # NoExc
            THEN [next EXCEPT !.at = i]
            ELSE GroupScan_PositionalsFirst([next EXCEPT !.consumed = i],
                                            argv, commands, i + 1)

GroupParser_parse_PositionalsFirst(parser, argv, commands, h) ==
    GroupScan_PositionalsFirst(StartParse(parser, h), argv, commands, 1)

RECURSIVE GroupScan(_, _, _, _)
\* GroupParser.parse: as CommandParser.parse, with the child-name test first.
GroupScan(ps, argv, commands, i) ==
    IF i > Len(argv) THEN Finish(ps)
    ELSE IF ~ HasEq(argv[i]) /\ Text(argv[i]) \in commands
         THEN Finish([ps EXCEPT !.sub_command = Text(argv[i]),
                                !.sub_argv = sub_argv_after(argv, i),
                                !.at = i])
    ELSE IF argv[i] = HelpTok
         THEN [ps EXCEPT !.help_only = TRUE, !.at = i, !.sub_argv = argv]
    ELSE IF argv[i] = VersionTok
         THEN [ps EXCEPT !.version_only = TRUE, !.at = i, !.sub_argv = argv]
    ELSE LET next == IF StartsWithDash(argv[i])
                     THEN ParseFlag(ps, argv[i])
                     ELSE ParseBare(ps, argv[i])
         IN IF next.exc # NoExc
            THEN [next EXCEPT !.at = i]
            ELSE GroupScan([next EXCEPT !.consumed = i], argv, commands, i + 1)

GroupParser_parse(parser, argv, commands, h) ==
    GroupScan(StartParse(parser, h), argv, commands, 1)


(***************************************************************************)
(* The wrappers (wrappers.py).  An invocation yields                       *)
(*   ret: the exit code returned (-1 when an exception propagates),        *)
(*   exc: the exception that propagates to the caller (NoExc when none),   *)
(*   h:   the definitions' state afterwards,                               *)
(*   log: what happened, in order: "parsed" (a parse returned), "call"     *)
(*        (the bound callable ran), "help" and "version" (text printed),   *)
(*        "invoke" (a node's invoke began), "raise" (a parse raised).      *)
(* raises is the set of nodes whose bound callable fails when called.      *)
(***************************************************************************)
Returned(code, h, log) == [ret |-> code, exc |-> NoExc, h |-> h, log |-> log]

Raised(exc, h, log) == [ret |-> -1, exc |-> exc, h |-> h, log |-> log]

ParsedEvent(n, r) ==
    [ev |-> "parsed", node |-> n, args |-> r.args, kwargs |-> r.kwargs,
     help_only |-> r.help_only, version_only |-> r.version_only,
     sub_command |-> r.sub_command, sub_argv |-> r.sub_argv,
     consumed |-> r.consumed, at |-> r.at, _kwargs |-> r._kwargs]

RaiseEvent(n, r) ==
    [ev |-> "raise", node |-> n, exc |-> r.exc, consumed |-> r.consumed,
     at |-> r.at, _kwargs |-> r._kwargs, _args |-> r._args]

\* BaseWrapper.help / Group.help: prints the usage text and returns 0.
help(n, h, log) == Returned(0, h, Append(log, [ev |-> "help", node |-> n]))

\* Mutant of _invoke: help_only is ignored and the callable runs.
_invoke_IgnoresHelp(n, args, kwargs, isolated, help_only, raises, h, log) ==
    LET called == Append(log, [ev |-> "call", node |-> n, args |-> args,
                               kwargs |-> kwargs, raised |-> n \in raises])
    IN IF n \notin raises
       THEN Returned(0, h, called)
       ELSE IF isolated
            THEN Returned(1, h, called)
            ELSE Raised(CallableFailure(n), h, called)

\* Mutant of _invoke: the callable is never run.
_invoke_SkipsCallable(n, args, kwargs, isolated, help_only, raises, h, log) ==
    IF help_only THEN help(n, h, log) ELSE Returned(0, h, log)

\* Mutant of _invoke: under isolation the exit code the failure carries is
\* returned.
_invoke_ReturnsCarriedCode(n, args, kwargs, isolated, help_only, raises, h, log) ==
    IF help_only
    THEN help(n, h, log)
    ELSE LET called == Append(log, [ev |-> "call", node |-> n, args |-> args,
                                    kwargs |-> kwargs, raised |-> n \in raises])
         IN IF n \notin raises
            THEN Returned(0, h, called)
            ELSE IF isolated
                 THEN Returned(CallableFailure(n).exit_code, h, called)
                 ELSE Raised(CallableFailure(n), h, called)

\* BaseWrapper._invoke
_invoke(n, args, kwargs, isolated, help_only, raises, h, log) ==
    IF help_only
    THEN help(n, h, log)
    ELSE LET called == Append(log, [ev |-> "call", node |-> n, args |-> args,
                                    kwargs |-> kwargs, raised |-> n \in raises])
         IN IF n \notin raises
            THEN Returned(0, h, called)
            ELSE IF isolated
                 THEN Returned(1, h, called)
                 ELSE Raised(CallableFailure(n), h, called)

\* The event that opens the log of node n's invoke.
InvokeEvent(n, argv) == [ev |-> "invoke", node |-> n, argv |-> argv]

\* print(self.version); return 0
print_version(n, h, log) ==
    Returned(0, h, Append(log, [ev |-> "version", node |-> n,
                                text |-> Node[n].version]))

\* Mutant of Command_dispatch: version_only is not looked at.
Command_dispatch_NoVersionCheck(n, r, isolated, raises, log) ==
    IF r.exc # NoExc
    THEN Raised(r.exc, r.h, Append(log, RaiseEvent(n, r)))
    ELSE _invoke(n, r.args, r.kwargs, isolated, r.help_only, raises, r.h,
                 Append(log, ParsedEvent(n, r)))

\* Command.invoke once parse has yielded r (an exception parse raised
\* propagates out of invoke).
Command_dispatch(n, r, isolated, raises, log) ==
    IF r.exc # NoExc
    THEN Raised(r.exc, r.h, Append(log, RaiseEvent(n, r)))
    ELSE IF r.version_only
    THEN print_version(n, r.h, Append(log, ParsedEvent(n, r)))
    ELSE _invoke(n, r.args, r.kwargs, isolated, r.help_only, raises, r.h,
                 Append(log, ParsedEvent(n, r)))

\* Command.invoke
Command_invoke(n, argv, isolated, raises, h, log) ==
    Command_dispatch(n, CommandParser_parse(copy(ParserOf(n)), argv, h),
                     isolated, raises, Append(log, InvokeEvent(n, argv)))

RECURSIVE invoke(_, _, _, _, _, _)

\* Mutant of invoke_child: a failure code of the own callable is returned
\* and the child is left alone.
invoke_child_KeepsOwnCode(sub_command, sub_argv, own, raises) ==
    IF own.exc # NoExc \/ own.ret # 0
    THEN own
    ELSE invoke(sub_command, sub_argv, FALSE, raises, own.h, own.log)

\* Group.invoke after the group's own callable ran with outcome own:
\* `return sub_command.invoke(argv=sub_argv)`, unless own raised.
invoke_child(sub_command, sub_argv, own, raises) ==
    IF own.exc # NoExc
    THEN own
    ELSE invoke(sub_command, sub_argv, FALSE, raises, own.h, own.log)

\* Mutant of Group_dispatch: allow_direct_exec is not looked at and a group
\* without a matched child always prints its help.
Group_dispatch_NeverDirect(n, r, isolated, raises, log) ==
    IF r.exc # NoExc
    THEN Raised(r.exc, r.h, Append(log, RaiseEvent(n, r)))
    ELSE IF r.version_only
    THEN print_version(n, r.h, Append(log, ParsedEvent(n, r)))
    ELSE IF r.sub_command # None
    THEN invoke_child(r.sub_command, r.sub_argv,
                      _invoke(n, r.args, r.kwargs, isolated, r.help_only,
                              raises, r.h, Append(log, ParsedEvent(n, r))),
                      raises)
    ELSE help(n, r.h, Append(log, ParsedEvent(n, r)))

\* Mutant of Group_dispatch: a matched child is invoked without the
\* group's own callable having run.
Group_dispatch_SkipsOwn(n, r, isolated, raises, log) ==
    IF r.exc # NoExc
    THEN Raised(r.exc, r.h, Append(log, RaiseEvent(n, r)))
    ELSE IF r.version_only
    THEN print_version(n, r.h, Append(log, ParsedEvent(n, r)))
    ELSE IF r.sub_command # None
    THEN invoke(r.sub_command, r.sub_argv, FALSE, raises, r.h,
                Append(log, ParsedEvent(n, r)))
    ELSE IF Node[n].allow_direct_exec
    THEN _invoke(n, r.args, r.kwargs, isolated, r.help_only, raises, r.h,
                 Append(log, ParsedEvent(n, r)))
    ELSE help(n, r.h, Append(log, ParsedEvent(n, r)))

\* Group.invoke once parse has yielded r.
Group_dispatch(n, r, isolated, raises, log) ==
    IF r.exc # NoExc
    THEN Raised(r.exc, r.h, Append(log, RaiseEvent(n, r)))
    ELSE IF r.version_only
    THEN print_version(n, r.h, Append(log, ParsedEvent(n, r)))
    ELSE IF r.sub_command # None
    THEN invoke_child(r.sub_command, r.sub_argv,
                      _invoke(n, r.args, r.kwargs, isolated, r.help_only,
                              raises, r.h, Append(log, ParsedEvent(n, r))),
                      raises)
    ELSE IF Node[n].allow_direct_exec
    THEN _invoke(n, r.args, r.kwargs, isolated, r.help_only, raises, r.h,
                 Append(log, ParsedEvent(n, r)))
    ELSE help(n, r.h, Append(log, ParsedEvent(n, r)))

\* Group.invoke
Group_invoke(n, argv, isolated, raises, h, log) ==
    Group_dispatch(n, GroupParser_parse(copy(ParserOf(n)), argv,
                                        ChildrenOf(n), h),
                   isolated, raises, Append(log, InvokeEvent(n, argv)))

\* node.invoke(argv, isolated): the method of the node's class.
invoke(n, argv, isolated, raises, h, log) ==
    IF Node[n].type = "Command"
    THEN Command_invoke(n, argv, isolated, raises, h, log)
    ELSE Group_invoke(n, argv, isolated, raises, h, log)

(***************************************************************************)
(* The runner (runner.py).                                                 *)
(***************************************************************************)
\* Mutant of catch_clea: every framework failure is reported as exit code 1.
catch_clea_AlwaysOne(r) ==
    IF r.exc # NoExc /\ r.exc.clea
    THEN [r EXCEPT !.ret = 1, !.exc = NoExc,
                   !.log = Append(r.log, [ev |-> "stderr", text |-> r.exc.message])]
    ELSE r

\* The except clause of _run: a CleaException becomes a Result holding its
\* exit code and message; any other exception propagates.
catch_clea(r) ==
    IF r.exc # NoExc /\ r.exc.clea
    THEN [r EXCEPT !.ret = r.exc.exit_code, !.exc = NoExc,
                   !.log = Append(r.log, [ev |-> "stderr", text |-> r.exc.message])]
    ELSE r

\* _run: cli.invoke(argv=argv, isolated=False) inside the try.
_run(n, argv, raises, h) == catch_clea(invoke(n, argv, FALSE, raises, h, <<>>))

\* Result of the runner.  Texts are sequences of words; "" is <<>>.
Result(exit_code, stderr, stdout) ==
    [exit_code |-> exit_code, stderr |-> stderr, stdout |-> stdout]

\* What an event of the call writes to sys.stdout: help and version print.
StdoutOf(e) ==
    CASE e.ev = "help" -> <<"usage", e.node>>
      [] e.ev = "version" -> <<e.text>>
      [] OTHER -> <<>>

\* What an event of the call writes to sys.stderr: the callable of c writes
\* a warning before it returns or raises.
StderrOf(e) == IF e.ev = "call" /\ e.node = "c" THEN <<"warning">> ELSE <<>>

\* Everything the events of log write to a stream, in order.
RECURSIVE Written(_, _)
Written(log, stream) ==
    IF log = <<>>
    THEN <<>>
    ELSE (IF stream = "stdout" THEN StdoutOf(Head(log)) ELSE StderrOf(Head(log)))
            \o Written(Tail(log), stream)

\* The Result _run returned, read from what catch_clea left.
ResultOf(r) ==
    LET n == Len(r.log)
    IN Result(r.ret,
              IF n > 0 /\ r.log[n].ev = "stderr" THEN r.log[n].text ELSE <<>>,
              <<>>)

\* The event that closes the log of run: whether run returned a Result or
\* left through sys.exit, the Result, and what reached the real streams.
RunEvent(returned, exited, result, stdout, stderr) ==
    [ev |-> "run", returned |-> returned, exited |-> exited,
     result |-> result, stdout |-> stdout, stderr |-> stderr]

\* An exception leaves run: no Result, no sys.exit; out and err are what
\* reached the real streams before.
Propagates(r, out, err) ==
    [r EXCEPT !.log = Append(@, RunEvent(FALSE, FALSE, Result(-1, <<>>, <<>>),
                                         out, err))]

\* The return of _run_isolated: the Result holds what the buffers captured
\* (out, err), the message after err; nothing reached the real streams.
Captured(r, result, out, err) ==
    [r EXCEPT !.log = Append(@,
         RunEvent(TRUE, FALSE,
                  Result(result.exit_code, err \o result.stderr, out),
                  <<>>, <<>>))]

\* _run_isolated, given what _run did: while stdout and stderr are
\* redirected nothing reaches the real streams; an exception that leaves
\* _run leaves the with block too.
_run_isolated(r) ==
    IF r.exc # NoExc
    THEN Propagates(r, <<>>, <<>>)
    ELSE Captured(r, ResultOf(r), Written(r.log, "stdout"), Written(r.log, "stderr"))

\* Mutant of Exits: the failure message is written even when it is empty.
Exits_AlwaysWrites(r, result, out, err) ==
    [r EXCEPT !.log = Append(@,
         RunEvent(FALSE, TRUE, result, out, err \o result.stderr \o <<"\n">>))]

\* The end of run when not isolated: the message is written to sys.stderr
\* when it is not empty, then sys.exit(result.exit_code).
Exits(r, result, out, err) ==
    [r EXCEPT !.log = Append(@,
         RunEvent(FALSE, TRUE, result, out,
                  err \o (IF result.stderr # <<>>
                          THEN result.stderr \o <<"\n">>
                          ELSE <<>>)))]

\* run, given what _run did.
run_after(r, isolated) ==
    IF isolated
    THEN _run_isolated(r)
    ELSE IF r.exc # NoExc
         THEN Propagates(r, Written(r.log, "stdout"), Written(r.log, "stderr"))
         ELSE Exits(r, ResultOf(r), Written(r.log, "stdout"), Written(r.log, "stderr"))

\* run(cli, argv, isolated)
run(n, argv, isolated, raises, h) == run_after(_run(n, argv, raises, h), isolated)

(***************************************************************************)
(* The runtime context (context.py) and how the wrappers hand it on while  *)
(* the tree is built (wrappers.py).  Context objects live on a heap: a     *)
(* Context is named by its position in _data and _cwd.  The tree under     *)
(* construction is a record t of the nodes built so far, the context each  *)
(* node holds, the default of each node's ContextParameter, and the heap.  *)
(***************************************************************************)
\* context = None
NoContext == 0

\* The working directories the process can be in.
Dirs == {"/cwd", "/tmp"}

\* The keys and values the callables store.
Keys == {"color", "level"}
Values == {"v1", "v2"}

\* A key that _data does not hold.
Absent == "<absent>"

\* The nodes whose callable is annotated with a `context` parameter: _wrap
\* registers a ContextParameter for them under --context.
ContextParamNodes ==
    { x \in DOMAIN Node :
         \E i \in DOMAIN Node[x].decls : Def[Node[x].decls[i]].kind = "Context" }

\* The tree before any decorator has run.
EmptyTree ==
    [ built |-> {},
      context |-> [x \in DOMAIN Node |-> NoContext],
      context_default |-> [x \in DOMAIN Node |-> NoContext],
      _children |-> [x \in DOMAIN Node |-> {}],
      _data |-> <<>>,
      _cwd |-> <<>> ]

\* Context(): _data = {} and _cwd = Path.cwd()
Context_init(t, cwd) ==
    [t EXCEPT !._data = Append(@, [key \in Keys |-> Absent]),
              !._cwd = Append(@, cwd)]

\* Context.set
Context_set(data, context, key, value) ==
    [data EXCEPT ![context][key] = value]

\* Context.get
Context_get(data, context, key, default) ==
    IF data[context][key] = Absent THEN default ELSE data[context][key]

\* `context or Context()` in _wrap: the tree after it, and the context.
context_or_new(t, context, cwd) ==
    IF context # NoContext
    THEN [t |-> t, context |-> context]
    ELSE [t |-> Context_init(t, cwd), context |-> Len(t._data) + 1]

\* BaseWrapper.set_context with Parser.set_context: the ContextParameter is
\* set only when the parser holds one.
set_context(t, x, context) ==
    [t EXCEPT !.context[x] = context,
              !.context_default[x] =
                  IF x \in ContextParamNodes THEN context ELSE @]

\* Mutant of add_child: the child is registered without the context.
add_child_KeepsChildContext(t, parent, child) ==
    [t EXCEPT !._children[parent] = @ \cup {child}]

\* self._children[child.name] = child
register(t, parent, child) ==
    [t EXCEPT !._children[parent] = @ \cup {child}]

\* Group.add_child
add_child(t, parent, child) ==
    IF t.context[parent] # NoContext
    THEN register(set_context(t, child, t.context[parent]), parent, child)
    ELSE register(t, parent, child)

\* Command._wrap and Command.__init__: the ContextParameter gets the
\* context handed in (or a new one), the Command itself is constructed
\* without context, and registers with its parent.
Command_wrap(t, x, context, parent, cwd) ==
    LET c == context_or_new(t, context, cwd)
        made == [c.t EXCEPT !.built = @ \cup {x},
                            !.context[x] = NoContext,
                            !.context_default[x] =
                                IF x \in ContextParamNodes THEN c.context ELSE @]
    IN IF parent # None THEN add_child(made, parent, x) ELSE made

\* Group._wrap and Group.__init__: as Command._wrap, but the Group is
\* constructed with the context.
Group_wrap(t, x, context, parent, cwd) ==
    LET c == context_or_new(t, context, cwd)
        made == [c.t EXCEPT !.built = @ \cup {x},
                            !.context[x] = c.context,
                            !.context_default[x] =
                                IF x \in ContextParamNodes THEN c.context ELSE @]
    IN IF parent # None THEN add_child(made, parent, x) ELSE made

\* group.command = partial(Command.wrap, parent=self, context=self.context)
group_command(t, parent, x, cwd) ==
    Command_wrap(t, x, t.context[parent], parent, cwd)

\* group.group = partial(self.wrap, parent=self, context=self.context)
group_group(t, parent, x, cwd) ==
    Group_wrap(t, x, t.context[parent], parent, cwd)

\* The group a node is declared under, None for a root.
ParentOf(x) ==
    IF \E g \in DOMAIN Node : x \in Node[g].children
    THEN CHOOSE g \in DOMAIN Node : x \in Node[g].children
    ELSE None

RECURSIVE RootOf(_)
\* The root of the tree a node belongs to.
RootOf(x) == IF ParentOf(x) = None THEN x ELSE RootOf(ParentOf(x))

\* RootOf, tabulated.
Root == [x \in DOMAIN Node |-> RootOf(x)]

\* The decorator that builds node x: clea.group / clea.command for a root,
\* the parent's group / command helper for a child.
Decorate(t, x, cwd) ==
    IF ParentOf(x) = None
    THEN IF Node[x].type = "Group"
         THEN Group_wrap(t, x, NoContext, None, cwd)
         ELSE Command_wrap(t, x, NoContext, None, cwd)
    ELSE IF Node[x].type = "Group"
         THEN group_group(t, ParentOf(x), x, cwd)
         ELSE group_command(t, ParentOf(x), x, cwd)

\* The order in which the program's decorators run.
DecoratorOrder ==
    <<"cli", "a", "b", "g", "c", "h", "k", "m", "d", "e", "p", "f", "r", "s">>

RECURSIVE AddLate(_, _)
\* The explicit add_child calls of the program, parent by parent.
AddLate(t, pairs) ==
    IF pairs = {}
    THEN t
    ELSE LET pair == CHOOSE q \in pairs : TRUE
         IN AddLate(add_child(t, pair[1], pair[2]), pairs \ {pair})

RECURSIVE DecorateAll(_, _, _)
\* The module's decorators run in source order, each on a node not yet built.
DecorateAll(t, order, cwd) ==
    IF order = <<>>
    THEN t
    ELSE IF Head(order) \in t.built
    THEN DecorateAll(t, Tail(order), cwd)
    ELSE DecorateAll(Decorate(t, Head(order), cwd), Tail(order), cwd)

\* The trees once the program's module has been imported in /cwd.
BuiltTree ==
    AddLate(DecorateAll(EmptyTree, DecoratorOrder, "/cwd"),
            { q \in (DOMAIN Node) \X (DOMAIN Node) : q[2] \in LateChildren[q[1]] })

\* The definitions' state right after the tree is built.
InitHeap ==
    [container |-> [d \in {x \in Defs : Def[x].is_container} |-> <<>>],
     _default |-> [d \in Defs |-> Def[d].default],
     context_default |-> BuiltTree.context_default]

(***************************************************************************)
(* The state machine.                                                      *)
(***************************************************************************)
VARIABLES
    pc,         \* "idle": the caller is building argv; "done": the call ended
    argv,       \* the argument vector of the current call
    call,       \* how the node was invoked: entry point, node, isolated
    ret,        \* exit code of the call (-1: none, an exception propagated)
    exc,        \* exception that propagated out of the call
    log,        \* events of the call, in order
    container,  \* StringList.container of every container definition
    _default,   \* Parameter._default of every definition
    ninvokes,   \* calls made so far on this tree
    built,      \* the nodes the decorators have built
    context,    \* BaseWrapper.context of every node
    context_default, \* ContextParameter._default of every node
    _children,  \* Group._children of every node: the names registered
    parser,     \* the parser a decorator is filling: its _args and _kwargs
    added,      \* the definitions the decorator has added to it, in order
    _data,      \* Context._data of every Context
    _cwd,       \* Context._cwd of every Context
    cwd         \* the working directory of the process

callvars == <<pc, argv, call, ret, exc, log, container, _default, ninvokes>>
treevars ==
    <<built, context, context_default, _children, parser, added, _data, _cwd, cwd>>
vars == <<pc, argv, call, ret, exc, log, container, _default, ninvokes,
          built, context, context_default, _children, parser, added,
          _data, _cwd, cwd>>

NoCall == [entry |-> None, node |-> None, isolated |-> FALSE]

\* The nodes, contexts and heap are those of tree t.
TreeIs(t) ==
    /\ built = t.built
    /\ context = t.context
    /\ context_default = t.context_default
    /\ _children = t._children
    /\ _data = t._data
    /\ _cwd = t._cwd

Init ==
    /\ pc = "idle"
    /\ argv = <<>>
    /\ call = NoCall
    /\ ret = -1
    /\ exc = NoExc
    /\ log = <<>>
    /\ container = InitHeap.container
    /\ _default = InitHeap._default
    /\ ninvokes = 0
    /\ TreeIs(BuiltTree)
    /\ parser = EmptyParser
    /\ added = <<>>
    /\ cwd = "/cwd"

Tree ==
    [built |-> built, context |-> context, context_default |-> context_default,
     _children |-> _children, _data |-> _data, _cwd |-> _cwd]


Heap ==
    [container |-> container, _default |-> _default,
     context_default |-> context_default]

\* The caller appends one token to the argument vector it is building.
AppendToken(T, max) ==
    /\ pc = "idle"
    /\ Len(argv) < max
    /\ \E t \in T : argv' = Append(argv, t)
    /\ UNCHANGED <<pc, call, ret, exc, log, container, _default, ninvokes>>
    /\ UNCHANGED treevars

Finished(entry, n, isolated, r) ==
    /\ pc' = "done"
    /\ call' = [entry |-> entry, node |-> n, isolated |-> isolated]
    /\ ret' = r.ret
    /\ exc' = r.exc
    /\ log' = r.log
    /\ container' = r.h.container
    /\ _default' = r.h._default
    /\ ninvokes' = ninvokes + 1
    /\ UNCHANGED argv
    /\ UNCHANGED treevars

\* node.invoke(argv, isolated) called directly, as a test does.
Invoke ==
    /\ pc = "idle"
    /\ \E n \in Nodes, isolated \in BOOLEAN :
          \E raises \in SUBSET Below(n) :
             Finished("invoke", n, isolated,
                      invoke(n, argv, isolated, raises, Heap, <<>>))

\* run(cli, argv): the runner's _run around cli.invoke.
Run ==
    /\ pc = "idle"
    /\ \E n \in Nodes :
          \E raises \in SUBSET Below(n) :
             Finished("run", n, FALSE, _run(n, argv, raises, Heap))

\* The caller starts building the argument vector of its next call.
NextCall ==
    /\ pc = "done"
    /\ ninvokes < MaxInvokes
    /\ pc' = "idle"
    /\ argv' = <<>>
    /\ call' = NoCall
    /\ ret' = -1
    /\ exc' = NoExc
    /\ log' = <<>>
    /\ UNCHANGED <<container, _default, ninvokes>>
    /\ UNCHANGED treevars

\* One call on a freshly built tree.
Next ==
    \/ AppendToken(Tokens, MaxArgv)
    \/ Invoke
    \/ Run

Spec == Init /\ [][Next]_vars

\* Repeated direct calls on the same tree, as a test suite makes them.
NextRepeat ==
    \/ AppendToken(RepeatTokens, MaxRepeatArgv)
    \/ Invoke
    \/ NextCall

SpecRepeat == Init /\ [][NextRepeat]_vars


\* Longest argument vector the caller hands to a root group (SpecGroup).
MaxGroupArgv == 2

\* Tokens the caller draws from when it invokes a root group (SpecGroup).
GroupTokens ==
    { HelpTok, VersionTok, Bare("c"), Bare("e"), Bare("x"),
      Flag("--verbose"), FlagEq("--mode", "x"),
      FlagEq("--verbose", "false"), Flag("--no-pager"), Flag("--debug"),
      Bare("1") }

\* group.invoke(argv, isolated) called directly on a root group.
InvokeGroup ==
    /\ pc = "idle"
    /\ \E n \in Groups, isolated \in BOOLEAN :
          \E raises \in SUBSET Below(n) :
             Finished("invoke", n, isolated,
                      invoke(n, argv, isolated, raises, Heap, <<>>))

\* run(group, argv): the runner's _run around group.invoke.
RunGroup ==
    /\ pc = "idle"
    /\ \E n \in Groups :
          \E raises \in SUBSET Below(n) :
             Finished("run", n, FALSE, _run(n, argv, raises, Heap))

\* One call on a freshly built root group.
NextGroup ==
    \/ AppendToken(GroupTokens, MaxGroupArgv)
    \/ InvokeGroup
    \/ RunGroup

SpecGroup == Init /\ [][NextGroup]_vars

\* node.invoke(argv, isolated) called directly on a node of N.
InvokeNode(N) ==
    /\ pc = "idle"
    /\ \E n \in N, isolated \in BOOLEAN :
          \E raises \in SUBSET Below(n) :
             Finished("invoke", n, isolated,
                      invoke(n, argv, isolated, raises, Heap, <<>>))

\* run(node, argv) for a node of N: the runner's _run around node.invoke.
RunNode(N) ==
    /\ pc = "idle"
    /\ \E n \in N :
          \E raises \in SUBSET Below(n) :
             Finished("run", n, FALSE, _run(n, argv, raises, Heap))

\* Longest argument vector the caller hands to command b (SpecChoice).
MaxChoiceArgv == 2

\* Tokens the caller draws from when it invokes command b (SpecChoice).
ChoiceTokens ==
    { Flag("--red"), Flag("--blue"), Flag("--dark-red"), Flag("--dark_red"),
      Flag("--RED"), FlagEq("--red", "x"), Bare("x"), HelpTok }

\* One call on a freshly built command b, whose color is chosen by flag.
NextChoice ==
    \/ AppendToken(ChoiceTokens, MaxChoiceArgv)
    \/ InvokeNode({"b"})
    \/ RunNode({"b"})

SpecChoice == Init /\ [][NextChoice]_vars

\* Longest argument vector the caller hands to command f (SpecFile).
MaxFileArgv == 2

\* Tokens the caller draws from when it invokes command f (SpecFile).
FileTokens ==
    { Bare("a.txt"), Bare("nope"), Bare("dir"),
      FlagEq("--config", "nope"), FlagEq("-c", "nope"),
      FlagEq("--config", "a.txt"), Flag("--config"),
      FlagEq("--out", "dir"), FlagEq("--out", "nope") }

\* One call on a freshly built command f, whose parameters are files.
NextFile ==
    \/ AppendToken(FileTokens, MaxFileArgv)
    \/ InvokeNode({"f"})
    \/ RunNode({"f"})

SpecFile == Init /\ [][NextFile]_vars

\* Longest argument vector the caller hands to a leaf command (SpecLeaf).
MaxLeafArgv == 2

\* The leaf commands the caller invokes on their own (SpecLeaf).
Leaves == {"c", "e"}

\* Tokens the caller draws from when it invokes a leaf command (SpecLeaf).
LeafTokens == { HelpTok, VersionTok, Bare("1"), Bare("x") }

\* One call on a freshly built leaf command.
NextLeaf ==
    \/ AppendToken(LeafTokens, MaxLeafArgv)
    \/ InvokeNode(Leaves)
    \/ RunNode(Leaves)

SpecLeaf == Init /\ [][NextLeaf]_vars

\* Longest argument vector the caller hands to the runner (SpecRun).
MaxRunArgv == 2

\* Tokens the caller draws from when it runs a root group (SpecRun).
RunTokens ==
    { HelpTok, VersionTok, Bare("c"), Bare("e"), Bare("x"), Bare("1"),
      FlagEq2("--mode", "x") }

\* run(group, argv, isolated): the entry point of the runner.
RunRoot ==
    /\ pc = "idle"
    /\ \E n \in Groups, isolated \in BOOLEAN :
          \E raises \in SUBSET Below(n) :
             Finished("runner", n, isolated, run(n, argv, isolated, raises, Heap))

\* One run of a freshly built root group.
NextRun ==
    \/ AppendToken(RunTokens, MaxRunArgv)
    \/ RunRoot

SpecRun == Init /\ [][NextRun]_vars

\* The roots of the trees whose construction SpecContext follows.
ContextRoots == {"g", "d"}

\* The decorator of node x runs: a root, or a child whose parent is built.
Construct ==
    \E x \in UNION { Below(r) : r \in ContextRoots } :
       /\ x \notin built
       /\ ParentOf(x) # None => ParentOf(x) \in built
       /\ LET t == Decorate(Tree, x, cwd)
          IN /\ built' = t.built
             /\ context' = t.context
             /\ context_default' = t.context_default
             /\ _children' = t._children
             /\ _data' = t._data
             /\ _cwd' = t._cwd
       /\ UNCHANGED <<callvars, parser, added, cwd>>

\* The callable of node x, given its context parameter, stores value
\* under key.
ContextSet(x, key, value) ==
    /\ x \in built \cap ContextParamNodes
    /\ _data' = Context_set(_data, context_default[x], key, value)
    /\ UNCHANGED <<callvars, built, context, context_default, _children, parser, added,
                   _cwd, cwd>>

\* Some callable stores some value.
Store == \E x \in DOMAIN Node, key \in Keys, value \in Values : ContextSet(x, key, value)

\* The process changes its working directory.
Chdir ==
    /\ \E dir \in Dirs \ {cwd} : cwd' = dir
    /\ UNCHANGED <<callvars, built, context, context_default, _children, parser, added,
                   _data, _cwd>>

\* The decorators run in any order the program can give them, the
\* callables store values, the process moves.
NextContext ==
    \/ Construct
    \/ Store
    \/ Chdir

\* No decorator has run yet.
InitContext ==
    /\ pc = "idle"
    /\ argv = <<>>
    /\ call = NoCall
    /\ ret = -1
    /\ exc = NoExc
    /\ log = <<>>
    /\ container = InitHeap.container
    /\ _default = InitHeap._default
    /\ ninvokes = 0
    /\ TreeIs(EmptyTree)
    /\ parser = EmptyParser
    /\ added = <<>>
    /\ cwd = "/cwd"

SpecContext == InitContext /\ [][NextContext]_vars

\* One call on a freshly built root group, by invoke or through run, with
\* or without isolation.
NextIsolated ==
    \/ AppendToken(GroupTokens, MaxGroupArgv)
    \/ InvokeGroup
    \/ RunRoot

SpecIsolated == Init /\ [][NextIsolated]_vars

\* parent.add_child(child): the program attaches a root group it has built
\* to another root group.
Attach(parent, child) ==
    /\ parent \in built /\ child \in built
    /\ parent # child
    /\ child \notin _children[parent] /\ parent \notin _children[child]
    /\ LET t == add_child(Tree, parent, child)
       IN /\ context' = t.context
          /\ context_default' = t.context_default
          /\ _children' = t._children
    /\ UNCHANGED <<callvars, built, parser, added, _data, _cwd, cwd>>

\* Some root group is attached to another.
AttachRoot == \E parent \in ContextRoots, child \in ContextRoots : Attach(parent, child)

\* x.set_context(c): the program hands node x a Context.
SetContext(x, c) ==
    /\ x \in built
    /\ c \in 1..Len(_data)
    /\ context[x] # c
    /\ LET t == set_context(Tree, x, c)
       IN /\ context' = t.context
          /\ context_default' = t.context_default
    /\ UNCHANGED <<callvars, built, _children, parser, added, _data, _cwd, cwd>>

\* Some node is handed some Context.
SetSomeContext == \E x \in DOMAIN Node, c \in 1..2 : SetContext(x, c)

\* The decorators run, groups are attached to groups, nodes are handed
\* contexts.
NextAttach ==
    \/ Construct
    \/ AttachRoot
    \/ SetSomeContext

SpecAttach == InitContext /\ [][NextAttach]_vars

\* Longest argument vector the caller hands to group h (SpecContextFlag).
MaxContextArgv == 2

\* Tokens the caller draws from when it invokes h or k (SpecContextFlag).
ContextTokens ==
    { Bare("k"), Bare("m"), Flag("--context"), FlagEq("--context", "x"),
      HelpTok, Bare("x") }

\* One call on group h or its child k, whose callables take the context.
NextContextFlag ==
    \/ AppendToken(ContextTokens, MaxContextArgv)
    \/ InvokeNode({"h", "k"})
    \/ RunNode({"h", "k"})

SpecContextFlag == Init /\ [][NextContextFlag]_vars

\* Number of definitions a decorator adds to one parser (SpecAdd).
MaxAdds == 3

\* The definitions a callable's parameters can carry (SpecAdd): nick shares
\* its short flag with name, dbg its long flag with debug.
AddPool == {"env", "name", "nick", "debug", "dbg", "mode", "tag", "color"}

\* The definitions added so far.
Added == { added[i] : i \in DOMAIN added }

\* _wrap adds the definition of the callable's next parameter.
AddDefinition ==
    /\ Len(added) < MaxAdds
    /\ \E d \in AddPool \ Added :
          /\ parser' = add(parser, d)
          /\ added' = Append(added, d)
    /\ UNCHANGED <<callvars, built, context, context_default, _children,
                   _data, _cwd, cwd>>

\* One parser being filled by _wrap.
NextAdd == AddDefinition

SpecAdd == Init /\ [][NextAdd]_vars

\* Longest argument vector the caller hands to group r or s (SpecCycle).
MaxCycleArgv == 3

\* Tokens the caller draws from when it invokes r or s (SpecCycle).
CycleTokens == { Bare("r"), Bare("s"), Bare("x"), HelpTok }

\* One call on group r or on s, each registered beneath the other.
NextCycle ==
    \/ AppendToken(CycleTokens, MaxCycleArgv)
    \/ InvokeNode({"r", "s"})
    \/ RunNode({"r", "s"})

SpecCycle == Init /\ [][NextCycle]_vars

(***************************************************************************)
(* Reading the log.                                                        *)
(***************************************************************************)
\* The positions of the log at which a node's invoke began.
InvokeEvents == { i \in 1..Len(log) : log[i].ev = "invoke" }

\* The event that ends the parse of the invoke begun at log[i]: "parsed"
\* when parse returned, "raise" when it raised.
Outcome(i) == log[i + 1]

\* The scan of the parse ended by event e got as far as token j.
Reached(e, j) == e.at = 0 \/ e.at >= j

\* node._parser.copy().parse(argv) on definitions in state h.
ParseOn(n, av, h) ==
    IF Node[n].type = "Command"
    THEN CommandParser_parse(copy(ParserOf(n)), av, h)
    ELSE GroupParser_parse(copy(ParserOf(n)), av, ChildrenOf(n), h)

\* What a caller observes of a parse: the failure, or the values returned.
ObservedEvent(e) ==
    IF e.ev = "raise"
    THEN <<"error", e.exc.type>>
    ELSE <<"returned", e.args, e.kwargs, e.help_only, e.version_only>>

ObservedParse(r) ==
    IF r.exc # NoExc
    THEN <<"error", r.exc.type>>
    ELSE <<"returned", r.args, r.kwargs, r.help_only, r.version_only>>

\* The flags under which definition d is registered in node n's parser.
FlagsOf(n, d) == { f \in DOMAIN ParserOf(n)._kwargs : ParserOf(n)._kwargs[f] = d }

\* The named definitions of node n.
NamedDefs(n) == { ParserOf(n)._kwargs[f] : f \in DOMAIN ParserOf(n)._kwargs }

\* A token of the form flag or flag=value (at most one "=").
IsFlagToken(arg) == StartsWithDash(arg) /\ arg.eqs <= 1 /\ arg # HelpTok /\ arg # VersionTok

\* The value such a token hands to the definition's parse.
ValueOfToken(arg) == IF HasEq(arg) THEN arg.value ELSE Text(arg)

(***************************************************************************)
(* C1.  Invoking the same node repeatedly is stateless: the values a call  *)
(* parses depend only on that call's argv, so every call yields the values *)
(* the same argv yields on a freshly built tree, and no accumulated        *)
(* container value or flag-selected choice of an earlier call shows up.    *)
(* Checked under SpecRepeat; the shared definition objects refute it.      *)
(***************************************************************************)
C1_InvokeIsStateless ==
    \A i \in InvokeEvents :
        ObservedEvent(Outcome(i)) =
            ObservedParse(ParseOn(log[i].node, log[i].argv, InitHeap))

(***************************************************************************)
(* C2.  For a value-taking flag kind (String, Integer, ...), replacing a   *)
(* token --flag=value of an argv by the two tokens --flag value does not   *)
(* change what the parse yields: the same failure, or the same positional  *)
(* values, named values and help/version outcome.                          *)
(***************************************************************************)
ValueKinds == {"String", "Integer", "Float", "Choice", "File", "Directory"}

\* av with its token j, --flag=value, written as two tokens.
TwoTokenForm(av, j) ==
    SubSeq(av, 1, j - 1) \o <<Flag(av[j].flag), Bare(av[j].value)>>
        \o SubSeq(av, j + 1, Len(av))

C2_InlineAndSeparateValueAgree ==
    \A i \in InvokeEvents :
        LET n == log[i].node
            av == log[i].argv
        IN \A j \in 1..Len(av) :
              ( /\ av[j].eqs = 1
                /\ av[j].flag \in DOMAIN ParserOf(n)._kwargs
                /\ Def[ParserOf(n)._kwargs[av[j].flag]].kind \in ValueKinds )
              => ObservedEvent(Outcome(i)) =
                    ObservedParse(ParseOn(n, TwoTokenForm(av, j), InitHeap))


(***************************************************************************)
(* C3.  Positional slots left unfilled.                                    *)
(***************************************************************************)
\* The positional definitions of node n, in declaration order.
Positionals(n) == ParserOf(n)._args

RECURSIVE BareCount(_, _)
\* The number of bare tokens among the first m tokens of av.
BareCount(av, m) ==
    IF m = 0 THEN 0
    ELSE BareCount(av, m - 1) + (IF StartsWithDash(av[m]) THEN 0 ELSE 1)

\* Token arg names a child of node n.
IsChildTok(n, arg) == ~ HasEq(arg) /\ Text(arg) \in ChildrenOf(n)

\* The scan ended by e went through its whole argv: it ran off the end or,
\* in a group, stopped at a child name.
ScanCompleted(n, av, e) == e.at = 0 \/ IsChildTok(n, av[e.at])

\* The number of tokens of av that belong to the scan ended by e.
ScannedLen(av, e) == IF e.at = 0 THEN Len(av) ELSE e.at - 1

MissingFrom(n, m) ==
    CleaException("ArgumentsMissing",
                  Metavars(SubSeq(Positionals(n), m + 1, Len(Positionals(n)))), 1)

\* C3 as claimed: a command's argv with fewer bare tokens than the parser
\* has positional definitions always fails with ArgumentsMissing, naming
\* exactly the unfilled definitions in declaration order.
C3_FewerBareTokensAlwaysMissing ==
    \A i \in InvokeEvents :
        LET n == log[i].node
            av == log[i].argv
            m == BareCount(av, Len(av))
        IN (Node[n].type = "Command" /\ m < Len(Positionals(n)))
           => (Outcome(i).ev = "raise" /\ Outcome(i).exc = MissingFrom(n, m))

\* C3 as amended: when the scan goes through the whole argv (no --help or
\* --version token and no failing token ends it earlier) and meets fewer
\* bare tokens than the parser has positional definitions, the parse fails
\* with ArgumentsMissing naming exactly the unfilled definitions, in
\* declaration order.
C3_UnfilledPositionalsAreMissing ==
    \A i \in InvokeEvents :
        LET n == log[i].node
            av == log[i].argv
            e == Outcome(i)
            m == BareCount(av, ScannedLen(av, e))
        IN (ScanCompleted(n, av, e) /\ m < Len(Positionals(n)))
           => (e.ev = "raise" /\ e.exc = MissingFrom(n, m))

\* Command a, given its first positional only, fails naming the second.
C3_Witness ==
    \E i \in InvokeEvents :
        /\ log[i].node = "a"
        /\ BareCount(log[i].argv, Len(log[i].argv)) = 1
        /\ Outcome(i).ev = "raise"
        /\ Outcome(i).at = 0
        /\ Outcome(i).exc.type = "ArgumentsMissing"
        /\ Outcome(i).exc.message = <<metavar("num")>>

(***************************************************************************)
(* C4.  A non-container flag used twice.                                   *)
(***************************************************************************)
\* The flags that name the same parameter as the registered flag f: f
\* itself and the short and long flag of its definition.
AliasSet(n, f) ==
    LET d == ParserOf(n)._kwargs[f]
    IN {f} \cup ({Def[d].short_flag, long_flag(d)} \ {None})

\* The positions of av that hold a token flag or flag=value for one of fs.
Occurrences(av, fs) ==
    { j \in 1..Len(av) : IsFlagToken(av[j]) /\ av[j].flag \in fs }

Min(S) == CHOOSE x \in S : \A y \in S : x <= y

\* The position of the second occurrence.
Second(occ) == Min(occ \ {Min(occ)})

NonContainerFlags(n) ==
    { f \in DOMAIN ParserOf(n)._kwargs : ~ Def[ParserOf(n)._kwargs[f]].is_container }

\* C4 as claimed: an argv of a command that holds a flag of a non-container
\* named parameter twice fails at the second occurrence with
\* ExtraArgumentProvided.
C4_SecondUseAlwaysExtra ==
    \A i \in InvokeEvents :
        LET n == log[i].node
            av == log[i].argv
            e == Outcome(i)
        IN Node[n].type = "Command" =>
           \A f \in NonContainerFlags(n) :
              LET occ == Occurrences(av, AliasSet(n, f))
              IN Cardinality(occ) >= 2
                 => /\ e.ev = "raise"
                    /\ e.at = Second(occ)
                    /\ e.exc = ExtraArgumentProvided("flag", av[Second(occ)].flag)

\* C4 as amended: when the scan of an argv reaches the second occurrence of
\* a flag of a non-container named parameter (the same flag again, or the
\* parameter's other short/long alias), it fails there with
\* ExtraArgumentProvided, the flag used and the parameter's short and long
\* flag having been deregistered at the first use.
C4_SecondUseReachedIsExtra ==
    \A i \in InvokeEvents :
        LET n == log[i].node
            av == log[i].argv
            e == Outcome(i)
        IN \A f \in NonContainerFlags(n) :
              LET occ == Occurrences(av, AliasSet(n, f))
              IN (Cardinality(occ) >= 2 /\ Reached(e, Second(occ)))
                 => /\ e.ev = "raise"
                    /\ e.at = Second(occ)
                    /\ e.exc = ExtraArgumentProvided("flag", av[Second(occ)].flag)
                    /\ AliasSet(n, f) \cap DOMAIN e._kwargs = {}

\* Command a is given --name=x and then the alias -n=x.
C4_Witness ==
    \E i \in InvokeEvents :
        /\ log[i].node = "a"
        /\ Len(log[i].argv) >= 2
        /\ log[i].argv[1] = FlagEq("--name", "x")
        /\ log[i].argv[2] = FlagEq("-n", "x")
        /\ Outcome(i).ev = "raise"
        /\ Outcome(i).at = 2
        /\ Outcome(i).exc.type = "ExtraArgumentProvided"


(***************************************************************************)
(* C5.  For a container (StringList) parameter whose flag occurs n times   *)
(* in an argv, the value parsed for it is the sequence of exactly those n  *)
(* values, in occurrence order, and its flags stay registered.             *)
(* Checked under SpecRepeat; the container shared with earlier calls       *)
(* refutes it.                                                             *)
(***************************************************************************)
RECURSIVE ValuesGiven(_, _, _)
\* The values the first m tokens of av give to the flags fs, in order.
ValuesGiven(av, fs, m) ==
    IF m = 0 THEN <<>>
    ELSE ValuesGiven(av, fs, m - 1) \o
         (IF IsFlagToken(av[m]) /\ av[m].flag \in fs
          THEN <<ValueOfToken(av[m])>> ELSE <<>>)

ContainerDefs(n) == { d \in NamedDefs(n) : Def[d].is_container }

C5_ContainerHoldsItsOccurrences ==
    \A i \in InvokeEvents :
        LET n == log[i].node
            av == log[i].argv
            e == Outcome(i)
        IN (e.ev = "parsed" /\ ~ e.help_only /\ ~ e.version_only)
           => \A d \in ContainerDefs(n) :
                 /\ e.kwargs[Def[d].name] =
                        ValuesGiven(av, FlagsOf(n, d), ScannedLen(av, e))
                 /\ FlagsOf(n, d) \subseteq DOMAIN e._kwargs

(***************************************************************************)
(* C6.  When the scan reaches a flag token (flag or flag=value) whose flag *)
(* is not in the flag table at that moment, or a bare token when no        *)
(* positional slot is left, the parse fails there with                     *)
(* ExtraArgumentProvided; the failure carries a non-zero exit code, the    *)
(* runner ends with that code, and the node's callable is not invoked.     *)
(***************************************************************************)
\* The parser copy as it stands when the scan gets to token j of av.
ParserBefore(n, av, j) == ParseOn(n, SubSeq(av, 1, j - 1), InitHeap)

Unregistered(n, av, j) ==
    IsFlagToken(av[j]) /\ av[j].flag \notin DOMAIN ParserBefore(n, av, j)._kwargs

NoSlotLeft(n, av, j) ==
    /\ ~ StartsWithDash(av[j])
    /\ ~ (Node[n].type = "Group" /\ IsChildTok(n, av[j]))
    /\ Len(ParserBefore(n, av, j)._args) = 0

ExtraFor(arg) ==
    IF StartsWithDash(arg)
    THEN ExtraArgumentProvided("flag", arg.flag)
    ELSE ExtraArgumentProvided("arg", Text(arg))

\* Node n's callable ran at or after position i of the log.
CalledAfter(n, i) ==
    \E k \in i..Len(log) : log[k].ev = "call" /\ log[k].node = n

C6_ExtraArgumentFails ==
    \A i \in InvokeEvents :
        LET n == log[i].node
            av == log[i].argv
            e == Outcome(i)
        IN \A j \in 1..Len(av) :
              (Reached(e, j) /\ (Unregistered(n, av, j) \/ NoSlotLeft(n, av, j)))
              => /\ e.ev = "raise"
                 /\ e.at = j
                 /\ e.exc = ExtraFor(av[j])
                 /\ e.exc.exit_code # 0
                 /\ ~ CalledAfter(n, i)
                 /\ call.entry = "invoke" => (exc = e.exc /\ ret = -1)
                 /\ call.entry = "run" => (exc = NoExc /\ ret = e.exc.exit_code)

\* The runner dispatches through cli to b, which has no positional slot
\* for the bare token that follows: exit code 1, b's callable not invoked.
C6_Witness ==
    /\ pc = "done"
    /\ call.entry = "run"
    /\ call.node = "cli"
    /\ ret = 1
    /\ \E i \in InvokeEvents :
          /\ log[i].node = "b"
          /\ Outcome(i).ev = "raise"
          /\ Outcome(i).exc = ExtraArgumentProvided("arg", "x")
          /\ ~ CalledAfter("b", 1)

\* An unregistered flag given to a command through the runner.
C6_WitnessFlag ==
    /\ pc = "done"
    /\ call.entry = "run"
    /\ ret = 1
    /\ \E i \in InvokeEvents :
          /\ Outcome(i).ev = "raise"
          /\ Outcome(i).exc = ExtraArgumentProvided("flag", "--debug")

(***************************************************************************)
(* C7.  In a leaf command, when the scan reaches a --help token it stops   *)
(* there: no further token is consumed, help is printed, invoke returns 0  *)
(* and the callable is not invoked, whatever slots are unfilled and        *)
(* whatever tokens follow.                                                 *)
(***************************************************************************)
C7_HelpShortCircuitsLeaf ==
    \A i \in InvokeEvents :
        LET n == log[i].node
            av == log[i].argv
            e == Outcome(i)
        IN Node[n].type = "Command" =>
           \A j \in 1..Len(av) :
              (av[j] = HelpTok /\ Reached(e, j))
              => /\ e.ev = "parsed"
                 /\ e.help_only
                 /\ e.at = j
                 /\ e.consumed = j - 1
                 /\ Len(log) = i + 2
                 /\ log[i + 2] = [ev |-> "help", node |-> n]
                 /\ ~ CalledAfter(n, i)
                 /\ ret = 0
                 /\ exc = NoExc

\* Command a: one positional given, --help, then a flag a does not know.
C7_Witness ==
    /\ pc = "done"
    /\ call.node = "a"
    /\ argv = <<Bare("x"), HelpTok, Flag("--debug")>>
    /\ ret = 0
    /\ log[Len(log)] = [ev |-> "help", node |-> "a"]


(***************************************************************************)
(* C8.  The --version token.                                               *)
(***************************************************************************)
VersionPrinted(i) ==
    LET n == log[i].node
        e == Outcome(i)
    IN /\ e.ev = "parsed"
       /\ e.version_only
       /\ Len(log) = i + 2
       /\ log[i + 2] = [ev |-> "version", node |-> n, text |-> Node[n].version]
       /\ ~ CalledAfter(n, i)
       /\ ret = 0
       /\ exc = NoExc

\* C8 as claimed: whenever the argv of a node holds the token --version at
\* any position, the parse short-circuits to version-requested, the
\* configured version is printed, invoke returns 0 and the callable is not
\* invoked.
C8_VersionAnywhereShortCircuits ==
    \A i \in InvokeEvents :
        (\E j \in 1..Len(log[i].argv) : log[i].argv[j] = VersionTok)
        => VersionPrinted(i)

\* C8 as amended: whenever the scan of a node's argv reaches a --version
\* token (no --help token, failing token or, in a group, child name comes
\* before it), the parse short-circuits there to version-requested, the
\* configured version is printed, invoke returns 0 and the callable is not
\* invoked.
C8_VersionReachedShortCircuits ==
    \A i \in InvokeEvents :
        \A j \in 1..Len(log[i].argv) :
            (log[i].argv[j] = VersionTok /\ Reached(Outcome(i), j))
            => (VersionPrinted(i) /\ Outcome(i).at = j)

\* Group cli: its positional, then --version, then a child name.
C8_Witness ==
    /\ pc = "done"
    /\ call.node = "cli"
    /\ argv = <<Bare("x"), VersionTok, Bare("a")>>
    /\ ret = 0
    /\ log[Len(log)] = [ev |-> "version", node |-> "cli", text |-> "1.0"]

(***************************************************************************)
(* C9.  Dispatch of a group to the child its argv names.                   *)
(***************************************************************************)
\* The positions of av that hold a child name of node n.
ChildPositions(n, av) == { j \in 1..Len(av) : IsChildTok(n, av[j]) }

\* No token before position c is --help or --version.
NoHelpVersionBefore(av, c) ==
    \A j \in 1..(c - 1) : av[j] # HelpTok /\ av[j] # VersionTok

\* The invoke events that follow position i of the log.
InvokesAfter(i) == { k \in InvokeEvents : k > i }

\* After position i exactly one invoke begins: child ch with argv rest.
OnlyChildInvoked(i, ch, rest) ==
    /\ Cardinality(InvokesAfter(i)) = 1
    /\ \A k \in InvokesAfter(i) : log[k].node = ch /\ log[k].argv = rest

OwnCallableLetGo(i) ==
    /\ log[i + 2].ev = "call"
    /\ log[i + 2].node = log[i].node
    /\ (~ log[i + 2].raised \/ (i = 1 /\ call.isolated))

CallsOf(n) == { k \in 1..Len(log) : log[k].ev = "call" /\ log[k].node = n }

MatchedChild(i) ==
    /\ Node[log[i].node].type = "Group"
    /\ ~ Node[log[i].node].allow_direct_exec
    /\ Outcome(i).ev = "parsed"
    /\ Outcome(i).sub_command # None

OnlyHelpPrinted(i) ==
    /\ Outcome(i).ev = "parsed"
    /\ Len(log) = i + 2
    /\ log[i + 2] = [ev |-> "help", node |-> log[i].node]
    /\ \A k \in 1..Len(log) : log[k].ev # "call"
    /\ ret = 0
    /\ exc = NoExc

\* The invoke begun at log[i] ran the node's own callable with the values
\* its parse returned, and printed no help.
OwnCallableRan(i) ==
    /\ Outcome(i).ev = "parsed"
    /\ Len(log) = i + 2
    /\ log[i + 2].ev = "call"
    /\ log[i + 2].node = log[i].node
    /\ log[i + 2].args = Outcome(i).args
    /\ log[i + 2].kwargs = Outcome(i).kwargs

\* C11 as claimed: any group with allow_direct_exec = False invoked with
\* the empty argv prints its help, returns 0 and runs no callable; a group
\* with allow_direct_exec = True whose argv names no child runs its own
\* callable with the parsed values.
C11_AnyGroupHelpOrDirect ==
    \A i \in InvokeEvents :
        LET n == log[i].node
            av == log[i].argv
        IN Node[n].type = "Group" =>
           /\ (~ Node[n].allow_direct_exec /\ av = <<>>) => OnlyHelpPrinted(i)
           /\ (Node[n].allow_direct_exec /\ ChildPositions(n, av) = {})
                 => OwnCallableRan(i)

\* C11 as amended: a group with allow_direct_exec = False and no positional
\* parameter of its own, invoked with the empty argv, prints its help,
\* returns 0 and runs no callable; a group with allow_direct_exec = True
\* whose parse ends in ok (no failure, no help or version request) without
\* a matched child runs its own callable with the parsed values instead of
\* printing help.
C11_GroupHelpOrDirect ==
    \A i \in InvokeEvents :
        LET n == log[i].node
            av == log[i].argv
            e == Outcome(i)
        IN Node[n].type = "Group" =>
           /\ (~ Node[n].allow_direct_exec /\ av = <<>> /\ Positionals(n) = <<>>)
                 => OnlyHelpPrinted(i)
           /\ ( /\ Node[n].allow_direct_exec
                /\ e.ev = "parsed"
                /\ ~ e.help_only
                /\ ~ e.version_only
                /\ e.sub_command = None )
                 => OwnCallableRan(i)

\* Group d (allow_direct_exec) invoked with the empty argv ran its own
\* callable with the default of mode.
C11_Witness ==
    /\ pc = "done"
    /\ call.node = "d"
    /\ argv = <<>>
    /\ Len(log) = 3
    /\ log[3].ev = "call"
    /\ log[3].node = "d"
    /\ log[3].kwargs = DictSet(EmptyDict, "mode", "fast")

\* Group g (no positional, no direct execution) invoked with the empty argv
\* printed its help.
C11_WitnessHelp ==
    /\ pc = "done"
    /\ call.node = "g"
    /\ argv = <<>>
    /\ log[Len(log)] = [ev |-> "help", node |-> "g"]
    /\ ret = 0

(***************************************************************************)
(* C12.  The bound callable of a node runs only after that node's parse    *)
(* ended in ok: every positional slot was filled by a token that converted *)
(* and every flag token supplied converted.  It never runs after a parse   *)
(* failure, nor after a help or version request.                           *)
(***************************************************************************)
RECURSIVE BareTexts(_, _)
\* The texts of the bare tokens among the first m tokens of av, in order.
BareTexts(av, m) ==
    IF m = 0 THEN <<>>
    ELSE BareTexts(av, m - 1) \o
         (IF StartsWithDash(av[m]) THEN <<>> ELSE <<Text(av[m])>>)

\* Definition d converts text: Parameter.parse returns a value.
Converts(d, text) == parse(d, text, InitHeap).exc = NoExc

\* The value Parameter.parse returns for text.
Converted(d, text) == parse(d, text, InitHeap).val

\* The parse of av by node n that ended with event e ended in ok: it
\* returned without a help or version request, every positional slot is
\* filled by a converted bare token and every flag token was registered
\* and converted.
EndedOk(n, av, e) ==
    /\ e.ev = "parsed"
    /\ ~ e.help_only
    /\ ~ e.version_only
    /\ LET m == ScannedLen(av, e)
           bares == BareTexts(av, m)
       IN /\ Len(bares) = Len(Positionals(n))
          /\ Len(e.args) = Len(Positionals(n))
          /\ \A j \in 1..Len(bares) :
                /\ Converts(Positionals(n)[j], bares[j])
                /\ e.args[j] = Converted(Positionals(n)[j], bares[j])
          /\ \A j \in 1..m :
                StartsWithDash(av[j]) =>
                   /\ IsFlagToken(av[j])
                   /\ av[j].flag \in DOMAIN ParserOf(n)._kwargs
                   /\ Converts(ParserOf(n)._kwargs[av[j].flag], ValueOfToken(av[j]))

C12_CallableOnlyAfterOkParse ==
    /\ \A k \in 1..Len(log) :
          log[k].ev = "call" =>
             /\ k >= 3
             /\ log[k - 2].ev = "invoke"
             /\ log[k - 2].node = log[k].node
             /\ log[k - 1].node = log[k].node
             /\ EndedOk(log[k].node, log[k - 2].argv, log[k - 1])
             /\ log[k].args = log[k - 1].args
             /\ log[k].kwargs = log[k - 1].kwargs
    /\ \A i \in InvokeEvents :
          ( \/ Outcome(i).ev = "raise"
            \/ Outcome(i).help_only
            \/ Outcome(i).version_only )
          => ~ CalledAfter(log[i].node, i)

\* Command a ran with src = "x" and num = 1, converted from the token "1".
C12_Witness ==
    /\ pc = "done"
    /\ call.node = "a"
    /\ Len(log) = 3
    /\ log[3].ev = "call"
    /\ log[3].args = <<"x", 1>>

(***************************************************************************)
(* C13.  When a parse ends in ok, the positional result holds one          *)
(* converted value per declared positional, the i-th bare token bound to   *)
(* the i-th positional whatever flags are interleaved, and the named       *)
(* result has an entry for every declared named parameter: the parsed      *)
(* value when one of its flags was supplied, otherwise the container       *)
(* accumulator of a container and the configured default of any other      *)
(* kind.  (The version parameter the wrapper registers itself is not a     *)
(* declared parameter and gets no entry.)                                  *)
(***************************************************************************)
\* The named definitions node n declares: those of its flag table but the
\* version parameter.
DeclaredNamed(n) == { d \in NamedDefs(n) : Def[d].name # "version" }

Last(S) == CHOOSE x \in S : \A y \in S : y <= x

\* The entry an ok parse of the first m tokens of av holds for definition d.
NamedValue(n, d, av, m) ==
    LET occ == Occurrences(SubSeq(av, 1, m), FlagsOf(n, d))
    IN IF Def[d].is_container
       THEN InitHeap.container[d] \o ValuesGiven(av, FlagsOf(n, d), m)
       ELSE IF occ = {}
       THEN OptVal(Def[d].default)
       ELSE Converted(d, ValueOfToken(av[Last(occ)]))

C13_WitnessDefaults ==
    /\ pc = "done"
    /\ call.node = "b"
    /\ argv = <<>>
    /\ log[2].ev = "parsed"
    /\ log[2].kwargs = DictSet(DictSet(EmptyDict, "tag", <<>>), "color", None)

(***************************************************************************)
(* C14.  For a Boolean flag parameter with configured default d, an ok     *)
(* parse yields (not d) when one of its flags is among the tokens of the   *)
(* node and d when none is, whatever text the token carries (an inline     *)
(* value such as --flag=false included); the flag never consumes the       *)
(* token that follows it, which is scanned on its own.                     *)
(***************************************************************************)
BooleanDefs(n) == { d \in DeclaredNamed(n) : Def[d].kind = "Boolean" }

\* One of the flags of d is among the first m tokens of av.
Supplied(n, d, av, m) == Occurrences(SubSeq(av, 1, m), FlagsOf(n, d)) # {}

C14_BooleanIsNotDefaultWhenPresent ==
    \A i \in InvokeEvents :
        LET n == log[i].node
            av == log[i].argv
            e == Outcome(i)
            m == ScannedLen(av, e)
        IN (e.ev = "parsed" /\ ~ e.help_only /\ ~ e.version_only)
           => /\ \A d \in BooleanDefs(n) :
                    e.kwargs[Def[d].name] =
                       IF Supplied(n, d, av, m)
                       THEN ~ Def[d].default[1]
                       ELSE Def[d].default[1]
              /\ \A j \in 1..(m - 1) :
                    ( /\ IsFlagToken(av[j])
                      /\ av[j].flag \in DOMAIN ParserOf(n)._kwargs
                      /\ ParserOf(n)._kwargs[av[j].flag] \in BooleanDefs(n)
                      /\ ~ StartsWithDash(av[j + 1]) )
                    => \E k \in 1..Len(e.args) :
                          /\ k = BareCount(av, j + 1)
                          /\ e.args[k] = Converted(Positionals(n)[k], Text(av[j + 1]))

\* Group g given --verbose=false --no-pager: verbose (default False) is
\* True whatever the inline text, pager (default True) is False.
C14_Witness ==
    /\ pc = "done"
    /\ call.node = "g"
    /\ argv = <<FlagEq("--verbose", "false"), Flag("--no-pager")>>
    /\ log[2].ev = "parsed"
    /\ log[2].kwargs = DictSet(DictSet(EmptyDict, "verbose", TRUE), "pager", FALSE)

\* Group cli given --debug x: the bare token after the flag fills env.
C14_WitnessNextToken ==
    /\ pc = "done"
    /\ call.node = "cli"
    /\ argv = <<Flag("--debug"), Bare("x")>>
    /\ log[2].ev = "parsed"
    /\ log[2].args = <<"x">>
    /\ log[2].kwargs = DictSet(EmptyDict, "debug", TRUE)

(***************************************************************************)
(* C15.  A ChoiceByFlag parameter registers exactly one long flag per      *)
(* member of its enumeration: "--", then the member's name lower-cased     *)
(* with underscores turned into hyphens.  Supplying a member's flag yields *)
(* that member as the value and consumes no value token; a flag that is    *)
(* not registered fails with ExtraArgumentProvided.                        *)
(***************************************************************************)
ChoiceDefs(n) == { d \in NamedDefs(n) : Def[d].kind = "ChoiceByFlag" }

\* Token j of av is a member flag of d, written bare, still registered when
\* the scan gets to it.
MemberFlagAt(n, d, av, j) ==
    /\ av[j].eqs = 0
    /\ av[j].flag \in FlagsOf(n, d)
    /\ av[j].flag \in DOMAIN ParserBefore(n, av, j)._kwargs

C15_ChoiceByFlagRegistersMemberFlags ==
    /\ FlagsOf("b", "color") = {"--red", "--blue", "--dark-red"}
    /\ Cardinality(FlagsOf("b", "color")) = Cardinality(enum)
    /\ flag_to_value["--red"] = "RED"
    /\ flag_to_value["--blue"] = "BLUE"
    /\ flag_to_value["--dark-red"] = "DARK_RED"
    /\ \A i \in InvokeEvents :
          LET n == log[i].node
              av == log[i].argv
              e == Outcome(i)
          IN \A j \in 1..Len(av) :
                Reached(e, j) =>
                   /\ \A d \in ChoiceDefs(n) :
                         MemberFlagAt(n, d, av, j) =>
                            /\ e.at # j
                            /\ j < Len(av) => Reached(e, j + 1)
                            /\ ( /\ e.ev = "parsed"
                                 /\ \A k \in (j + 1)..Len(av) :
                                       ~ MemberFlagAt(n, d, av, k) )
                               => e.kwargs[Def[d].name] = flag_to_value[av[j].flag]
                   /\ Unregistered(n, av, j) =>
                         /\ e.ev = "raise"
                         /\ e.at = j
                         /\ e.exc = ExtraArgumentProvided("flag", av[j].flag)

\* Command b given --dark-red and then a bare token: color is DARK_RED and
\* the bare token, not consumed as a value, is refused for want of a slot.
C15_Witness ==
    /\ pc = "done"
    /\ call.node = "b"
    /\ argv = <<Flag("--dark-red"), Bare("x")>>
    /\ log[2].ev = "raise"
    /\ log[2].at = 2
    /\ log[2].exc = ExtraArgumentProvided("arg", "x")

\* Command b given --dark-red alone.
C15_WitnessValue ==
    /\ pc = "done"
    /\ call.node = "b"
    /\ argv = <<Flag("--dark-red")>>
    /\ log[2].ev = "parsed"
    /\ log[2].kwargs["color"] = "DARK_RED"

\* Command b given --dark_red, which is no registered flag.
C15_WitnessExtra ==
    /\ pc = "done"
    /\ call.node = "b"
    /\ argv = <<Flag("--dark_red")>>
    /\ log[2].ev = "raise"
    /\ log[2].exc = ExtraArgumentProvided("flag", "--dark_red")

(***************************************************************************)
(* C16.  A File parameter declared with exists = True that is given a path *)
(* that does not exist fails with ParsingError, exit code 1 and a message  *)
(* that names the parameter's flag and the path, however the parameter is  *)
(* bound (short flag, long flag or position); a path that exists but is no *)
(* file fails with ParsingError as well.                                   *)
(* The message of a File bound by position names no flag: refuted.         *)
(***************************************************************************)
\* The definition token j of av is handed to when the scan gets to it
\* (None when there is none).
BoundDef(n, av, j) ==
    IF StartsWithDash(av[j])
    THEN IF IsFlagToken(av[j])
            /\ av[j].flag \in DOMAIN ParserBefore(n, av, j)._kwargs
         THEN ParserBefore(n, av, j)._kwargs[av[j].flag]
         ELSE None
    ELSE IF Len(ParserBefore(n, av, j)._args) > 0
         THEN Head(ParserBefore(n, av, j)._args)
         ELSE None

\* The flags a File definition has: its short and its long flag.
FlagsOfFile(d) == {Def[d].short_flag, long_flag(d)} \ {None}

C16_MissingFileFailsNamingFlagAndPath ==
    \A i \in InvokeEvents :
        LET n == log[i].node
            av == log[i].argv
            e == Outcome(i)
        IN \A j \in 1..Len(av) :
              ( /\ Reached(e, j)
                /\ BoundDef(n, av, j) \in Defs
                /\ Def[BoundDef(n, av, j)].kind = "File" )
              => /\ ( /\ FileOpts[BoundDef(n, av, j)].exists
                      /\ PathKind(ValueOfToken(av[j])) = "missing" )
                    => /\ e.ev = "raise"
                       /\ e.at = j
                       /\ e.exc.type = "ParsingError"
                       /\ e.exc.exit_code = 1
                       /\ Len(e.exc.message) = 4
                       /\ e.exc.message[2] \in FlagsOfFile(BoundDef(n, av, j))
                       /\ e.exc.message[3] = ValueOfToken(av[j])
                 /\ PathKind(ValueOfToken(av[j])) = "dir"
                    => /\ e.ev = "raise"
                       /\ e.at = j
                       /\ e.exc.type = "ParsingError"

(***************************************************************************)
(* C17.  When tree.invoke raises a framework failure (ParsingError,        *)
(* ArgumentsMissing, ExtraArgumentProvided, RuntimeException), the runner  *)
(* catches it and reports the exit code the failure carries (1 when it was *)
(* built without one) and the failure's message as error text; when invoke *)
(* completes without failure the runner reports the value invoke returned. *)
(***************************************************************************)
\* The nodes whose callable failed during the call.
FailedNodes == { log[k].node : k \in { x \in 1..Len(log) : log[x].ev = "call" /\ log[x].raised } }

\* What tree.invoke(argv) itself does in the call the runner made.
TreeInvoke == invoke(call.node, argv, FALSE, FailedNodes, InitHeap, <<>>)

FrameworkFailures ==
    {"ParsingError", "ArgumentsMissing", "ExtraArgumentProvided", "RuntimeException"}

C17_RunnerReportsFailureCodeAndMessage ==
    (pc = "done" /\ call.entry = "run") =>
        /\ TreeInvoke.exc.type \in FrameworkFailures
              => /\ exc = NoExc
                 /\ ret = TreeInvoke.exc.exit_code
                 /\ ret # 0
                 /\ log = Append(TreeInvoke.log,
                                 [ev |-> "stderr", text |-> TreeInvoke.exc.message])
        /\ TreeInvoke.exc = NoExc
              => /\ exc = NoExc
                 /\ ret = TreeInvoke.ret
                 /\ ret = 0
                 /\ log = TreeInvoke.log

\* run(g, ["c"]) where c's callable raises RuntimeException with exit code
\* 3: the runner reports 3 and the message.
C17_Witness ==
    /\ pc = "done"
    /\ call.entry = "run"
    /\ call.node = "g"
    /\ argv = <<Bare("c")>>
    /\ ret = 3
    /\ log[Len(log)] = [ev |-> "stderr", text |-> <<"stopped">>]

\* run(d, ["e", "x"]): e's ParsingError for count is reported with code 1.
C17_WitnessParsingError ==
    /\ pc = "done"
    /\ call.entry = "run"
    /\ call.node = "d"
    /\ argv = <<Bare("e"), Bare("x")>>
    /\ ret = 1
    /\ log[Len(log)] = [ev |-> "stderr", text |-> ParsingError("count", "x").message]

\* run(d, ["e", "1"]) where e's callable raises RuntimeException built
\* without an exit code: the runner reports 1.
C17_WitnessDefaultCode ==
    /\ pc = "done"
    /\ call.entry = "run"
    /\ call.node = "d"
    /\ argv = <<Bare("e"), Bare("1")>>
    /\ ret = 1
    /\ log[Len(log)] = [ev |-> "stderr", text |-> <<"failed">>]

\* run(g, ["c"]) where nothing fails: exit code 0, no error text.
C17_WitnessSuccess ==
    /\ pc = "done"
    /\ call.entry = "run"
    /\ call.node = "g"
    /\ argv = <<Bare("c")>>
    /\ ret = 0
    /\ log[Len(log)].ev = "call"

(***************************************************************************)
(* C18.  run with isolated=True never terminates the process and never     *)
(* writes to the real streams: it returns a Result holding the exit code,  *)
(* the captured stdout, and the captured stderr with the framework         *)
(* failure's message appended.  run with isolated=False always ends by     *)
(* exiting the process with the result's exit code, and writes the failure *)
(* message to the error stream only when it is non-empty.                  *)
(***************************************************************************)
\* The event that closes the log of a run.
Ran == log[Len(log)]

\* The events of tree.invoke within the log of a run.
Inner == SelectSeq(log, LAMBDA e : e.ev \notin {"stderr", "run"})

\* The message of the framework failure tree.invoke raised, "" without one.
FailureMessage ==
    IF TreeInvoke.exc.type \in FrameworkFailures THEN TreeInvoke.exc.message ELSE <<>>

\* The exit code the runner reports for what tree.invoke did.
FailureOrReturnCode ==
    IF TreeInvoke.exc.type \in FrameworkFailures
    THEN TreeInvoke.exc.exit_code
    ELSE TreeInvoke.ret

ReturnedOrFrameworkFailure ==
    TreeInvoke.exc = NoExc \/ TreeInvoke.exc.type \in FrameworkFailures

C18_WitnessCapturedStdout ==
    /\ pc = "done"
    /\ call = [entry |-> "runner", node |-> "g", isolated |-> TRUE]
    /\ argv = <<HelpTok>>
    /\ Ran.returned
    /\ Ran.result = Result(0, <<>>, <<"usage", "g">>)
    /\ Ran.stdout = <<>>

\* run(g, ["c"]) where g's callable raises RuntimeException with an empty
\* message: the process exits with 2 and nothing is written.
C18_WitnessEmptyMessage ==
    /\ pc = "done"
    /\ call = [entry |-> "runner", node |-> "g", isolated |-> FALSE]
    /\ Ran.exited
    /\ Ran.result = Result(2, <<>>, <<>>)
    /\ Ran.stderr = <<>>

\* run(d, ["e", "x"]): the ParsingError is written and the process exits.
C18_WitnessWritten ==
    /\ pc = "done"
    /\ call = [entry |-> "runner", node |-> "d", isolated |-> FALSE]
    /\ argv = <<Bare("e"), Bare("x")>>
    /\ Ran.exited
    /\ Ran.stderr = ParsingError("count", "x").message \o <<"\n">>

\* run(d, [], isolated=True) where d's callable raises Exception: it
\* leaves run.
C18_WitnessPropagates ==
    /\ pc = "done"
    /\ call = [entry |-> "runner", node |-> "d", isolated |-> TRUE]
    /\ argv = <<>>
    /\ exc = BuiltinException("Exception")
    /\ ~Ran.returned


(***************************************************************************)
(* C19.  For a leaf Command whose bound callable raises a failure,         *)
(* invoke(argv, isolated=True) returns exit code 1 without propagating the *)
(* failure or surfacing its message, and invoke(argv, isolated=False)      *)
(* propagates the failure to the caller; when the callable completes       *)
(* normally invoke returns 0.                                              *)
(***************************************************************************)
\* The positions of the log at which a bound callable was called.
CallEvents == { k \in 1..Len(log) : log[k].ev = "call" }

C19_LeafCallableFailure ==
    (pc = "done" /\ call.entry = "invoke" /\ Node[call.node].type = "Command") =>
        \A k \in CallEvents :
           /\ log[k].node = call.node
           /\ k = Len(log)
           /\ (log[k].raised /\ call.isolated) =>
                 /\ ret = 1
                 /\ exc = NoExc
                 /\ \A x \in 1..Len(log) : log[x].ev # "stderr"
           /\ (log[k].raised /\ ~call.isolated) =>
                 /\ exc = CallableFailure(call.node)
                 /\ ret = -1
           /\ ~log[k].raised => ret = 0 /\ exc = NoExc

\* c.invoke([], isolated=True) where c's callable raises RuntimeException
\* with exit code 3: invoke returns 1.
C19_Witness ==
    /\ pc = "done"
    /\ call = [entry |-> "invoke", node |-> "c", isolated |-> TRUE]
    /\ CallEvents # {}
    /\ log[Len(log)].raised
    /\ ret = 1
    /\ exc = NoExc

\* e.invoke(["1"], isolated=False) where e's callable raises: the failure
\* reaches the caller.
C19_WitnessPropagates ==
    /\ pc = "done"
    /\ call = [entry |-> "invoke", node |-> "e", isolated |-> FALSE]
    /\ argv = <<Bare("1")>>
    /\ exc = RuntimeException(<<"failed">>, DefaultExitCode)

\* e.invoke(["1"]) where e's callable completes: invoke returns 0.
C19_WitnessCompletes ==
    /\ pc = "done"
    /\ call.entry = "invoke"
    /\ call.node = "e"
    /\ CallEvents # {}
    /\ ~log[Len(log)].raised
    /\ ret = 0


(***************************************************************************)
(* C20.  In a tree built through a group's composition helpers             *)
(* (group.command, group.group) every node at any depth holds the same     *)
(* Context object as the root group, so a value stored under a key during  *)
(* one node's execution is returned by get for that key in every node      *)
(* invoked later; the captured working directory is never changed by set.  *)
(***************************************************************************)
\* Every built node holds the Context of its root, and hands the same
\* Context to its callable.
SameContextAsRoot ==
    \A x \in built :
       /\ Root[x] \in built
       /\ context[Root[x]] # NoContext
       /\ context[x] = context[Root[x]]
       /\ x \in ContextParamNodes => context_default[x] = context[x]

\* A value under a key changes only by a set of that key on that Context.
OnlySetChanges ==
    \A c \in 1..Len(_data) : \A key \in Keys :
       _data'[c][key] # _data[c][key] =>
          \E x \in built, value \in Values :
             ContextSet(x, key, value) /\ context_default[x] = c

\* After node x stores value under key, get returns it in every node of
\* x's tree.
SetIsSeenByAll ==
    \A x \in built, key \in Keys, value \in Values :
       ContextSet(x, key, value) =>
          \A y \in built' :
             Root[y] = Root[x] =>
                /\ Context_get(_data', context'[y], key, None) = value
                /\ y \in ContextParamNodes =>
                      Context_get(_data', context_default'[y], key, None) = value

\* The working directory a Context captured stays what it was.
CwdKept == \A c \in 1..Len(_cwd) : _cwd'[c] = _cwd[c]

C20_TreeSharesOneContext ==
    [][ /\ SameContextAsRoot
        /\ SameContextAsRoot'
        /\ SetIsSeenByAll
        /\ OnlySetChanges
        /\ CwdKept ]_vars

\* k stored v2 under color; m, built under the same nested group, reads it
\* through its own context, while the tree of d holds another Context in
\* which color is not set, and the process has since left the directory
\* the Context captured.
C20_Witness ==
    /\ {"g", "h", "k", "m", "d", "p"} \subseteq built
    /\ context["m"] = context["g"]
    /\ context["k"] = context["g"]
    /\ context["d"] # context["g"]
    /\ Context_get(_data, context_default["m"], "color", None) = "v2"
    /\ Context_get(_data, context["g"], "color", None) = "v2"
    /\ Context_get(_data, context_default["p"], "color", None) = None
    /\ _cwd[context["g"]] = "/cwd"
    /\ cwd = "/tmp"


(***************************************************************************)
(* C21.  When a Group's parse matches a child, the group's own callable is *)
(* executed exactly once, with the group's parsed positional and named     *)
(* values, strictly before the matched child's invoke begins - also when   *)
(* the child's argv slice goes on to request help or version.              *)
(***************************************************************************)
\* The parse of the group invoke begun at log[i] returned a matched child.
ParseMatchedChild(i) ==
    /\ Node[log[i].node].type = "Group"
    /\ Outcome(i).ev = "parsed"
    /\ Outcome(i).sub_command # None

\* The invoke begun at log[i] was asked to be isolated: only the call the
\* caller made can be, a child is always invoked without isolation.
IsolatedAt(i) == i = 1 /\ call.isolated

C21_OwnCallableOnceBeforeChild ==
    pc = "done" =>
    \A i \in InvokeEvents :
        ParseMatchedChild(i) =>
           LET n == log[i].node
               e == Outcome(i)
           IN /\ CallsOf(n) = {i + 2}
              /\ log[i + 2].args = e.args
              /\ log[i + 2].kwargs = e.kwargs
              /\ \A k \in InvokeEvents : log[k].node = e.sub_command => k > i + 2
              /\ (~log[i + 2].raised \/ IsolatedAt(i)) =>
                    /\ Len(log) >= i + 3
                    /\ log[i + 3] = InvokeEvent(e.sub_command, e.sub_argv)

\* g c --help: g's callable runs, then c's invoke begins and prints c's
\* help.
C21_Witness ==
    /\ pc = "done"
    /\ call.node = "g"
    /\ argv = <<Bare("c"), HelpTok>>
    /\ CallsOf("g") = {3}
    /\ log[4] = InvokeEvent("c", <<HelpTok>>)
    /\ log[Len(log)] = [ev |-> "help", node |-> "c"]

\* d --mode=x e: d's callable receives mode = "x" before e's invoke begins.
C21_WitnessValues ==
    /\ pc = "done"
    /\ call.node = "d"
    /\ argv = <<FlagEq("--mode", "x"), Bare("e")>>
    /\ CallsOf("d") = {3}
    /\ log[3].kwargs = [mode |-> "x"]
    /\ log[4] = InvokeEvent("e", <<>>)


(***************************************************************************)
(* C22.  Whenever isolation is requested - by run(tree, argv,              *)
(* isolated=True) or by invoke(argv, isolated=True) on a Group - a failure *)
(* raised by any callable dispatched during that call, including the       *)
(* callable of a matched child at any depth, is swallowed into a non-zero  *)
(* exit code instead of propagating to the caller.                         *)
(***************************************************************************)
\* Some callable dispatched during the call raised a failure.
SomeCallableFailed == \E k \in CallEvents : log[k].raised

\* The exit code the call handed to its caller: the Result's for run, the
\* returned value for invoke.
ExitCodeOfCall ==
    IF call.entry = "runner" THEN Ran.result.exit_code ELSE ret

C22_IsolationSwallowsEveryFailure ==
    (pc = "done" /\ call.isolated /\ SomeCallableFailed) =>
        /\ exc = NoExc
        /\ ExitCodeOfCall # 0
        /\ call.entry = "runner" => Ran.returned


(***************************************************************************)
(* C23.  set_context(ctx) on a node sets the context of that node and,     *)
(* recursively, of every child already registered beneath it: after        *)
(* add_child attaches a group that already owns children to a parent, that *)
(* group and all of its descendants (and their injected Context            *)
(* parameters) hold the parent's context.                                  *)
(***************************************************************************)
RECURSIVE Registered(_, _, _)
\* The nodes of S and the nodes registered beneath them in children, to
\* depth d.
Registered(children, S, d) ==
    IF d = 0
    THEN S
    ELSE Registered(children, S \cup UNION { children[y] : y \in S }, d - 1)

\* Node x and every node registered beneath it.
Beneath(children, x) == Registered(children, {x}, Cardinality(DOMAIN Node))

\* Every node from x down holds Context c, and hands it to its callable.
AllHold(x, c) ==
    \A y \in Beneath(_children', x) :
       /\ context'[y] = c
       /\ y \in ContextParamNodes => context_default'[y] = c

C23_SetContextReachesDescendants ==
    [][ /\ \A x \in DOMAIN Node, c \in 1..Len(_data) :
              SetContext(x, c) => AllHold(x, c)
        /\ \A parent \in ContextRoots, child \in ContextRoots :
              Attach(parent, child) => AllHold(child, context[parent]) ]_vars


(***************************************************************************)
(* C24.  A callable parameter named context is never exposed on the        *)
(* command line: no argv token (in particular --context or                 *)
(* --context=value) is accepted as a flag of the Context parameter or      *)
(* reaches its parse, and whenever the callable is invoked the value it    *)
(* receives for context is the node's injected Context.                    *)
(***************************************************************************)
\* The token with which the invoke begun at log[i] ended its scan.
StoppedAt(i) == log[i].argv[Outcome(i).at]

\* The scan of the invoke begun at log[i] stopped at a --context token,
\* refusing it as a flag nobody registered.
RefusedAsUnknownFlag(i) ==
    /\ Outcome(i).ev = "raise"
    /\ Outcome(i).exc = ExtraArgumentProvided("flag", "--context")

C24_ContextNeverOnCommandLine ==
    pc = "done" =>
       /\ \A i \in InvokeEvents :
             /\ Outcome(i).ev = "parsed" =>
                   \A j \in 1..Len(log[i].argv) :
                      Reached(Outcome(i), j) => log[i].argv[j].flag # "--context"
             /\ (Outcome(i).ev = "raise" /\ Outcome(i).at > 0
                   /\ StoppedAt(i).flag = "--context") => RefusedAsUnknownFlag(i)
       /\ \A k \in CallEvents :
             log[k].node \in ContextParamNodes =>
                log[k].kwargs.context = ContextObject(context[log[k].node])


(***************************************************************************)
(* C25.  A ChoiceByFlag parameter, like every non-container named          *)
(* parameter, is consumable exactly once per argv: after one of its member *)
(* flags is consumed every flag registration of the parameter is removed,  *)
(* so a second member flag of the same parameter (the same member or a     *)
(* different one) later in the same argv fails with ExtraArgumentProvided. *)
(***************************************************************************)
\* Token j of av is a member flag of the ChoiceByFlag parameter.
IsMemberFlag(av, j) == av[j].flag \in DOMAIN flag_to_value

C25_SecondMemberFlagIsExtra ==
    pc = "done" =>
    \A i \in InvokeEvents :
       \A j1 \in 1..Len(log[i].argv), j2 \in 1..Len(log[i].argv) :
          (/\ j1 < j2
           /\ IsMemberFlag(log[i].argv, j1)
           /\ IsMemberFlag(log[i].argv, j2)
           /\ Reached(Outcome(i), j2)) =>
              /\ Outcome(i).ev = "raise"
              /\ Outcome(i).at = j2
              /\ Outcome(i).exc =
                    ExtraArgumentProvided("flag", log[i].argv[j2].flag)


(***************************************************************************)
(* C26.  After any sequence of add operations on one parser, every added   *)
(* definition is registered as exactly one of positional (no flags, no     *)
(* default) or named (reachable through at least one flag string in the    *)
(* flag table), and no flag string is claimed by two definitions: a later  *)
(* add never takes over a flag string that an earlier definition           *)
(* registered.                                                             *)
(***************************************************************************)
\* Definition d is in the parser's positional queue.
IsPositional(d) == \E i \in DOMAIN parser._args : parser._args[i] = d

\* Definition d is reachable through a flag of the parser's flag table.
IsNamed(d) == \E f \in DOMAIN parser._kwargs : parser._kwargs[f] = d

\* The flag strings add registers for definition d.
FlagsRegisteredFor(d) ==
    IF Def[d].kind = "ChoiceByFlag"
    THEN DOMAIN flag_to_value
    ELSE {Def[d].short_flag, long_flag(d)} \ {None}

C26_AddKeepsEveryRegistration ==
    \A d \in Added :
       /\ IsPositional(d) # IsNamed(d)
       /\ IsPositional(d) =>
             /\ FlagsRegisteredFor(d) = {}
             /\ Def[d].default = <<>>
       /\ \A f \in FlagsRegisteredFor(d) :
             f \in DOMAIN parser._kwargs /\ parser._kwargs[f] = d



(***************************************************************************)
(* C27.  For every argument vector a parse ends in exactly one of the four *)
(* terminal outcomes ok, help-requested, version-requested or a framework  *)
(* error (ParsingError, ArgumentsMissing or ExtraArgumentProvided): no     *)
(* token, a flag token with more than one `=` and the token --context      *)
(* included, makes the parse fail with a failure outside that family, so   *)
(* run always converts a parse failure into an exit code and a message.    *)
(***************************************************************************)
\* The failures a parse is said to end in.
ParseFailures == {"ParsingError", "ArgumentsMissing", "ExtraArgumentProvided"}

\* The parse of the invoke begun at log[i] returned: ok, help or version.
ParseReturned(i) ==
    /\ Outcome(i).ev = "parsed"
    /\ ~(Outcome(i).help_only /\ Outcome(i).version_only)

\* The parse of the invoke begun at log[i] raised a failure of the family.
ParseRefused(i) ==
    /\ Outcome(i).ev = "raise"
    /\ Outcome(i).exc.type \in ParseFailures

\* run turned the failure into an exit code and a message on stderr.
RunReported ==
    /\ exc = NoExc
    /\ ret # 0
    /\ \E k \in 1..Len(log) : log[k].ev = "stderr"

C27_ParseEndsInFamily ==
    (pc = "done" /\ call.entry = "runner") =>
       \A i \in InvokeEvents :
          /\ ParseReturned(i) # ParseRefused(i)
          /\ Outcome(i).ev = "raise" => RunReported



(***************************************************************************)
(* C28.  In a Group parse the first token in scan order that equals a      *)
(* registered child name ends the group's scan, even when the group still  *)
(* has unfilled positional slots and even when the token was meant as a    *)
(* positional value; in that case the parse fails with ArgumentsMissing    *)
(* and neither the group's callable nor the child is invoked.              *)
(***************************************************************************)
\* Token j of av is a registered child name of group n.
IsChildName(n, av, j) == ~ HasEq(av[j]) /\ Text(av[j]) \in ChildrenOf(n)

\* Token j is the first token of av that equals a child name of n.
FirstChildName(n, av, j) ==
    /\ IsChildName(n, av, j)
    /\ \A k \in 1..(j - 1) : ~ IsChildName(n, av, k)

\* The positional slots of group n that the bare tokens before j leave open.
UnfilledBefore(n, av, j) ==
    Len(ParserOf(n)._args)
       > Cardinality({ k \in 1..(j - 1) : ~ StartsWithDash(av[k]) })

\* Nothing was called or invoked after the parse of the invoke at log[i].
NothingInvokedAfter(i) ==
    \A k \in (i + 2)..Len(log) : log[k].ev \notin {"call", "invoke"}

C28_ChildNameEndsScan ==
    pc = "done" =>
    \A i \in InvokeEvents :
       Node[log[i].node].type = "Group" =>
          \A j \in 1..Len(log[i].argv) :
             (FirstChildName(log[i].node, log[i].argv, j)
                /\ Reached(Outcome(i), j)) =>
                /\ Outcome(i).at = j
                /\ UnfilledBefore(log[i].node, log[i].argv, j) =>
                      /\ Outcome(i).ev = "raise"
                      /\ Outcome(i).exc.type = "ArgumentsMissing"
                      /\ NothingInvokedAfter(i)
                /\ ~ UnfilledBefore(log[i].node, log[i].argv, j) =>
                      /\ Outcome(i).ev = "parsed"
                      /\ Outcome(i).sub_command = Text(log[i].argv[j])

\* cli a: the child name arrives while the positional env is unfilled.
C28_Witness ==
    /\ pc = "done"
    /\ call.node = "cli"
    /\ Len(argv) >= 1
    /\ argv[1] = Bare("a")
    /\ Outcome(1).ev = "raise"
    /\ Outcome(1).exc.type = "ArgumentsMissing"
    /\ NothingInvokedAfter(1)

\* cli x a: the positional is filled first and the child is matched.
C28_WitnessFilled ==
    /\ pc = "done"
    /\ call.node = "cli"
    /\ Len(argv) >= 2
    /\ argv[1] = Bare("x")
    /\ argv[2] = Bare("a")
    /\ Outcome(1).ev = "parsed"
    /\ Outcome(1).sub_command = "a"



(***************************************************************************)
(* C29.  When a Group's invoke matches a child, the exit code it returns   *)
(* is exactly the exit code returned by that child's invoke: the outcome   *)
(* of the group's own callable (a failure swallowed into code 1 under      *)
(* isolation included) neither changes the returned code nor prevents the  *)
(* child from being invoked.                                               *)
(***************************************************************************)
\* The parse of the group invoked by the caller matched a child.
GroupMatchedChild ==
    /\ Outcome(1).ev = "parsed"
    /\ Outcome(1).sub_command # None

\* The group's own callable failed.
OwnCallableFailed == log[3].ev = "call" /\ log[3].node = call.node /\ log[3].raised

\* The matched child's invoke began, with the tokens after its name.
ChildInvokeBegan ==
    /\ Len(log) >= 4
    /\ log[4].ev = "invoke"
    /\ log[4].node = Outcome(1).sub_command
    /\ log[4].argv = Outcome(1).sub_argv

\* sub_command.invoke(argv=sub_argv) on its own.
ChildInvoke ==
    invoke(Outcome(1).sub_command, Outcome(1).sub_argv, FALSE, FailedNodes,
           InitHeap, <<>>)

\* The group hands back what the child's invoke yields.
YieldsChildOutcome ==
    /\ ChildInvokeBegan
    /\ ret = ChildInvoke.ret
    /\ exc = ChildInvoke.exc

\* As stated: whatever the own callable does.
C29_ReturnsChildCode ==
    (pc = "done" /\ call.entry = "invoke" /\ GroupMatchedChild) => YieldsChildOutcome

\* C29: when the group's own callable returns, or fails under isolation, the
\* group's invoke invokes the matched child and returns exactly what the
\* child's invoke returns.
C29_ReturnsChildCodeWhenOwnCompletes ==
    (pc = "done" /\ call.entry = "invoke" /\ GroupMatchedChild) =>
       ((~ OwnCallableFailed \/ call.isolated) => YieldsChildOutcome)

\* g c under isolation: the own callable fails, the child returns 0.
C29_Witness ==
    /\ pc = "done"
    /\ call.entry = "invoke"
    /\ call.isolated
    /\ GroupMatchedChild
    /\ OwnCallableFailed
    /\ ChildInvokeBegan
    /\ ret = 0
    /\ exc = NoExc

\* The own callable returns and the child's failure is the group's.
C29_WitnessChildFails ==
    /\ pc = "done"
    /\ call.entry = "invoke"
    /\ GroupMatchedChild
    /\ ~ OwnCallableFailed
    /\ ChildInvokeBegan
    /\ exc # NoExc
    /\ exc = ChildInvoke.exc



(***************************************************************************)
(* C30.  invoke on any command tree with any finite argv terminates: each  *)
(* token is inspected at most once per node and every delegation to a      *)
(* matched child passes a strictly shorter argv, so the number of nested   *)
(* invoke calls is at most one plus the number of tokens of the original   *)
(* argv, also when a group is registered as its own descendant.            *)
(***************************************************************************)
\* Every invoke after the first was handed fewer tokens than the one before.
EachDelegationShorter ==
    \A i \in InvokeEvents, j \in InvokeEvents :
       i < j => Len(log[j].argv) < Len(log[i].argv)

C30_NestedInvokesBounded ==
    pc = "done" =>
       /\ Cardinality(InvokeEvents) <= 1 + Len(argv)
       /\ EachDelegationShorter
       /\ \A i \in InvokeEvents : Outcome(i).at <= Len(log[i].argv)

\* r s r s: the call goes round the cycle and ends after four invokes.
C30_Witness ==
    /\ pc = "done"
    /\ call.node = "r"
    /\ argv = <<Bare("s"), Bare("r"), Bare("s")>>
    /\ Cardinality(InvokeEvents) = 4
    /\ \E i \in InvokeEvents : i > 1 /\ log[i].node = "r"

====
